---- MODULE Spec2Model ----
(***************************************************************************)
(* Marketplace API (tf2-api): items, orders, balances, the transaction     *)
(* ledger and the inventory event log, as kept in the MySQL store, and the *)
(* request handlers of routers/items.py, routers/orders.py and             *)
(* routers/wallet.py.                                                      *)
(*                                                                         *)
(* Every connection is opened with autocommit=True (database.py:15), so    *)
(* each cur.execute is its own committed statement: a handler is a         *)
(* sequence of atomic statements, and the statements of concurrent         *)
(* requests interleave.  A statement may also raise (the handlers run      *)
(* under try/finally: db.close()), which ends the request with the         *)
(* statements executed so far committed.                                   *)
(*                                                                         *)
(* Money is counted in thousandths of a unit (1000 = 1.000 USDT), so that  *)
(* round(x, 2) is a real rounding, to a multiple of 10.                    *)
(***************************************************************************)
EXTENDS Integers, Sequences, FiniteSets, TLC

VARIABLES
  items,             \* table items: sequence of rows, id = index
  orders,            \* table orders: sequence of rows, id = index
  balances,          \* table balances: function on the existing keys <<user_id, token, network>>
  transactions,      \* table transactions: sequence of rows, in insertion order
  inventory_events,  \* table inventory_events: sequence of rows, in insertion order
  req,               \* per worker: the request it serves, the handler's position and locals
  nreq,              \* number of requests that passed their checks (bounds the model)
  refused,           \* status code of the latest request refused by a check (0: none yet)
  \* the watchlist service (src/main.py, SQLite)
  watchlist,         \* table watchlist: function on the existing ids
  seq,               \* AUTOINCREMENT: the largest id ever assigned
  wreq,              \* per task: the watchlist request it serves, position and locals
  wresp,             \* the latest response of the watchlist service
  \* login (routers/auth.py)
  users,             \* table users: sequence of rows, id = index
  steam_id_unique,   \* does the users table carry UNIQUE(steam_id)
  lreq,              \* per worker: the login request it serves and its position
  lresp,             \* the latest response of steam_login
  \* the listing normalizer (src/main.py)
  payload,           \* the decoded body of the upstream response
  outcome,           \* what the normalization of the payload gave
  \* the stats-URL parser (src/main.py)
  stats_url,         \* the URL given, as urlparse splits it
  parsed,            \* what parse_bptf_stats_url gave
  \* the listings query (src/main.py)
  env,               \* the environment variables BPTF_TOKEN and BPTF_KEY
  item_name,         \* the query parameter item_name
  upstream,          \* what the upstream does with a call: fail, or answer
  qpc,               \* position of the handler of GET /market/listings
  auth_used,         \* the handler's local auth_used
  calls,             \* number of calls made to the upstream
  qresp              \* the response of GET /market/listings

market == <<items, orders, balances, transactions, inventory_events, req, nreq, refused>>
watch  == <<watchlist, seq, wreq, wresp>>
auth   == <<users, steam_id_unique, lreq, lresp>>
norm   == <<payload, outcome>>
urlp   == <<stats_url, parsed>>
query  == <<env, item_name, upstream, qpc, auth_used, calls, qresp>>
vars == <<items, orders, balances, transactions, inventory_events, req, nreq, refused,
          watchlist, seq, wreq, wresp, users, steam_id_unique, lreq, lresp,
          payload, outcome, stats_url, parsed,
          env, item_name, upstream, qpc, auth_used, calls, qresp>>
\* what a step of the marketplace, of the watchlist service, of login, of the
\* normalizer, of the stats-URL parser and of the listings query leaves alone
outside_market == <<watch, auth, norm, urlp, query>>
outside_watch  == <<market, auth, norm, urlp, query>>
outside_auth   == <<market, watch, norm, urlp, query>>
outside_norm   == <<market, watch, auth, urlp, query>>
outside_urlp   == <<market, watch, auth, norm, query>>
outside_query  == <<market, watch, auth, urlp>>
db   == <<items, orders, balances, transactions, inventory_events>>

-----------------------------------------------------------------------------
(* Bounds of the model *)
MaxItems  == 1     \* rows of items
MaxOrders == 2     \* rows of orders
MaxReqs   == 5     \* requests that pass their checks and go on to write

Procs     == {1, 2}              \* concurrent request workers
Users     == {1, 2, 3}           \* user ids carried by valid tokens
AdminUsers == {3}                \* tokens with is_admin = true

(* Program constants *)
VALID_TYPES    == {"key", "metal", "ticket", "other"}
VALID_NETWORKS == {"polygon", "bsc"}
VALID_STATUSES == {"active", "sold", "cancelled"}
VALID_TOKENS   == {"USDT", "USDC"}

(* Request inputs *)
TypeInputs     == {"key", "hat"}
NetworkInputs  == {"polygon", "bsc", "eth"}     \* network of a listing
WalletNetworks == {"polygon", "eth"}            \* network of a deposit or withdrawal
TokenInputs    == {"USDT", "DOGE"}
NameInputs     == {<<"k">>, <<" ", "k">>}
Sellers        == {1}                \* users who list items
Buyers         == {1, 2}             \* users who place orders
ListPrices     == {500}              \* price_usdt > 0 of a new listing
NewPrices      == {1004}             \* price_usdt > 0 of an update
ListQuantities == {2}                \* quantity >= 1 of a new listing
NewQuantities  == {1}                \* quantity >= 1 of an update
OrderQuantities == {2, 3}            \* quantity >= 1 of an order
DepositAmounts == {1000}             \* amount > 0
WithdrawAmounts == {1000, 2500}      \* amount > 0
TxHashes       == {"0xt1"}
AddressInputs  == {"0xgood", "bad"}
StatusInputs   == {"", "active", "bogus"}

None == <<>>
Some(v) == <<v>>
IsNone(x) == Len(x) = 0

-----------------------------------------------------------------------------
(* Helpers *)

is_admin(u) == u \in AdminUsers

\* EVM_ADDRESS_RE.match(to_address)
EVM_ADDRESS_RE_match(a) == a = "0xgood"

\* str.strip() on a name given as a sequence of characters
RECURSIVE LStrip(_)
LStrip(s) == IF Len(s) > 0 /\ Head(s) = " " THEN LStrip(Tail(s)) ELSE s
RECURSIVE RStrip(_)
RStrip(s) == IF Len(s) > 0 /\ s[Len(s)] = " " THEN RStrip(SubSeq(s, 1, Len(s) - 1)) ELSE s
strip(s) == RStrip(LStrip(s))

\* round(x, 2) of an amount in thousandths: nearest multiple of 10, ties to even
round2(x) ==
  LET q == x \div 10
      r == x % 10
  IN  IF r < 5 THEN q * 10
      ELSE IF r > 5 THEN (q + 1) * 10
      ELSE IF q % 2 = 0 THEN q * 10 ELSE (q + 1) * 10

\* (mutant) the product is stored unrounded
OrderTotal_Unrounded(price, quantity) == price * quantity

\* total = round(float(item["price_usdt"]) * body.quantity, 2)
OrderTotal(price, quantity) == round2(price * quantity)

Idle == [op |-> "none", pc |-> "idle", user |-> 0, id |-> 0, item_id |-> 0,
         buyer_id |-> 0, quantity |-> 0, total |-> 0, amount |-> 0, bal |-> 0,
         token |-> "", network |-> "", tx_hash |-> "",
         name |-> None, price |-> None, qty |-> None, status |-> None]

InFlight(p) == req[p].pc # "idle"

\* raise HTTPException(status_code=code) before any write: the request ends
Reject(p, code) == refused' = code /\ UNCHANGED <<db, req, nreq>> /\ UNCHANGED outside_market

\* the request passed its checks: the worker goes on with locals r
Proceed(p, r) ==
  /\ nreq < MaxReqs
  /\ nreq' = nreq + 1
  /\ req' = [req EXCEPT ![p] = r]
  /\ UNCHANGED refused
  /\ UNCHANGED outside_market

\* the handler goes on to its next statement
Goto(p, pc) ==
  req' = [req EXCEPT ![p].pc = pc] /\ UNCHANGED <<nreq, refused>> /\ UNCHANGED outside_market

\* the handler returns (200, 201 or 204) and the worker is free again
Finish(p) ==
  req' = [req EXCEPT ![p] = Idle] /\ UNCHANGED <<nreq, refused>> /\ UNCHANGED outside_market

\* the marketplace store is empty and no request is running
MarketInit ==
  /\ items = <<>>
  /\ orders = <<>>
  /\ balances = [k \in {} |-> 0]
  /\ transactions = <<>>
  /\ inventory_events = <<>>
  /\ req = [p \in Procs |-> Idle]
  /\ nreq = 0
  /\ refused = 0

-----------------------------------------------------------------------------
(* routers/items.py *)

\* the checks of create_item: the status code raised, 0 if none
create_item_check(item_type, network) ==
  IF item_type \notin VALID_TYPES THEN 400
  ELSE IF network \notin VALID_NETWORKS THEN 400
  ELSE 0

\* POST /v1/items: validation and INSERT INTO items
create_item_insert(p, u, name, item_type, price, quantity, network) ==
  /\ ~InFlight(p)
  /\ IF create_item_check(item_type, network) # 0
     THEN Reject(p, create_item_check(item_type, network))
     ELSE /\ Len(items) < MaxItems
          /\ items' = Append(items, [seller_id |-> u, name |-> strip(name),
                                     item_type |-> item_type, price_usdt |-> price,
                                     quantity |-> quantity, network |-> network,
                                     status |-> "active"])
          /\ Proceed(p, [Idle EXCEPT !.op = "create_item", !.pc = "event",
                                                    !.user = u, !.id = Len(items) + 1])
          /\ UNCHANGED <<orders, balances, transactions, inventory_events>>

\* INSERT INTO inventory_events (..., 'listed'), SELECT, 201
create_item_event(p) ==
  /\ req[p].op = "create_item" /\ req[p].pc = "event"
  /\ inventory_events' = Append(inventory_events,
        [user_id |-> req[p].user, item_id |-> req[p].id, event_type |-> "listed"])
  /\ Finish(p)
  /\ UNCHANGED <<items, orders, balances, transactions>>

\* updates = body.model_dump(exclude_none=True)
NoUpdates(name, price, quantity, status) ==
  IsNone(name) /\ IsNone(price) /\ IsNone(quantity) /\ IsNone(status)

\* if body.status and body.status not in VALID_STATUSES
BadStatus(status) ==
  ~IsNone(status) /\ status[1] # "" /\ status[1] \notin VALID_STATUSES

\* may this user change the item row: seller or admin
MayEditItem(item, u) == item.seller_id = u \/ is_admin(u)

\* the checks of update_item: the status code raised, 0 if none
update_item_check(u, item_id, name, price, quantity, status) ==
  IF item_id \notin DOMAIN items THEN 404
  ELSE IF ~MayEditItem(items[item_id], u) THEN 403
  ELSE IF BadStatus(status) THEN 400
  ELSE IF NoUpdates(name, price, quantity, status) THEN 400
  ELSE 0

\* PUT /v1/items/{item_id}: SELECT and the checks
update_item_select(p, u, item_id, name, price, quantity, status) ==
  /\ ~InFlight(p)
  /\ IF update_item_check(u, item_id, name, price, quantity, status) # 0
     THEN Reject(p, update_item_check(u, item_id, name, price, quantity, status))
     ELSE /\ Proceed(p, [Idle EXCEPT !.op = "update_item", !.pc = "update",
                                                    !.id = item_id,
                                                    !.name = name, !.price = price,
                                                    !.qty = quantity, !.status = status])
          /\ UNCHANGED db

\* UPDATE items SET {set_clause} WHERE id = %s
ApplyUpdates(item, r) ==
  [item EXCEPT !.name       = IF IsNone(r.name)   THEN @ ELSE r.name[1],
               !.price_usdt = IF IsNone(r.price)  THEN @ ELSE r.price[1],
               !.quantity   = IF IsNone(r.qty)    THEN @ ELSE r.qty[1],
               !.status     = IF IsNone(r.status) THEN @ ELSE r.status[1]]

update_item_update(p) ==
  /\ req[p].op = "update_item" /\ req[p].pc = "update"
  /\ items' = [items EXCEPT ![req[p].id] = ApplyUpdates(@, req[p])]
  /\ Finish(p)
  /\ UNCHANGED <<orders, balances, transactions, inventory_events>>

\* the checks of delete_item: the status code raised, 0 if none
delete_item_check(u, item_id) ==
  IF item_id \notin DOMAIN items THEN 404
  ELSE IF ~MayEditItem(items[item_id], u) THEN 403
  ELSE IF items[item_id].status = "sold" THEN 409
  ELSE 0

\* DELETE /v1/items/{item_id}: SELECT and the checks
delete_item_select(p, u, item_id) ==
  /\ ~InFlight(p)
  /\ IF delete_item_check(u, item_id) # 0
     THEN Reject(p, delete_item_check(u, item_id))
     ELSE /\ Proceed(p, [Idle EXCEPT !.op = "delete_item", !.pc = "update",
                                                    !.user = u, !.id = item_id])
          /\ UNCHANGED db

\* UPDATE items SET status = 'cancelled' WHERE id = %s
delete_item_update(p) ==
  /\ req[p].op = "delete_item" /\ req[p].pc = "update"
  /\ items' = [items EXCEPT ![req[p].id].status = "cancelled"]
  /\ Goto(p, "event")
  /\ UNCHANGED <<orders, balances, transactions, inventory_events>>

\* INSERT INTO inventory_events (..., 'cancelled'), 204
delete_item_event(p) ==
  /\ req[p].op = "delete_item" /\ req[p].pc = "event"
  /\ inventory_events' = Append(inventory_events,
        [user_id |-> req[p].user, item_id |-> req[p].id, event_type |-> "cancelled"])
  /\ Finish(p)
  /\ UNCHANGED <<items, orders, balances, transactions>>

-----------------------------------------------------------------------------
(* routers/orders.py *)

\* (mutant) the quantity check is missing
create_order_check_NoQuantity(u, item_id, quantity) ==
  IF item_id \notin DOMAIN items THEN 404
  ELSE IF items[item_id].status # "active" THEN 409
  ELSE IF items[item_id].seller_id = u THEN 409
  ELSE 0

\* the checks of create_order: the status code raised, 0 if none
create_order_check(u, item_id, quantity) ==
  IF item_id \notin DOMAIN items THEN 404
  ELSE IF items[item_id].status # "active" THEN 409
  ELSE IF items[item_id].seller_id = u THEN 409
  ELSE IF quantity > items[item_id].quantity THEN 400
  ELSE 0

\* POST /v1/orders: SELECT the item and the checks
create_order_select(p, u, item_id, quantity) ==
  /\ ~InFlight(p)
  /\ IF create_order_check(u, item_id, quantity) # 0
     THEN Reject(p, create_order_check(u, item_id, quantity))
     ELSE /\ Len(orders) + Cardinality({q \in Procs : req[q].op = "create_order"}) < MaxOrders
          /\ Proceed(p, [Idle EXCEPT !.op = "create_order", !.pc = "insert",
                                                    !.user = u, !.item_id = item_id,
                                                    !.quantity = quantity,
                                                    !.total = OrderTotal(items[item_id].price_usdt, quantity),
                                                    !.network = items[item_id].network])
          /\ UNCHANGED db

\* INSERT INTO orders (buyer_id, item_id, quantity, amount_usdt, network, payment_address);
\* status and tx_hash take the column defaults; payment_address is an opaque random
\* string nothing reads and is left out.  SELECT, 201
create_order_insert(p) ==
  /\ req[p].op = "create_order" /\ req[p].pc = "insert"
  /\ orders' = Append(orders, [buyer_id |-> req[p].user, item_id |-> req[p].item_id,
                               quantity |-> req[p].quantity, amount_usdt |-> req[p].total,
                               network |-> req[p].network, status |-> "pending",
                               tx_hash |-> None])
  /\ Finish(p)
  /\ UNCHANGED <<items, balances, transactions, inventory_events>>

\* (mutant) the status check is missing
cancel_order_check_NoStatus(u, order_id) ==
  IF order_id \notin DOMAIN orders THEN 404
  ELSE IF orders[order_id].buyer_id # u THEN 403
  ELSE 0

\* the checks of cancel_order: the status code raised, 0 if none
cancel_order_check(u, order_id) ==
  IF order_id \notin DOMAIN orders THEN 404
  ELSE IF orders[order_id].buyer_id # u THEN 403
  ELSE IF orders[order_id].status # "pending" THEN 409
  ELSE 0

\* PUT /v1/orders/{order_id}/cancel: SELECT and the checks
cancel_order_select(p, u, order_id) ==
  /\ ~InFlight(p)
  /\ IF cancel_order_check(u, order_id) # 0
     THEN Reject(p, cancel_order_check(u, order_id))
     ELSE /\ Proceed(p, [Idle EXCEPT !.op = "cancel_order", !.pc = "update",
                                                    !.id = order_id])
          /\ UNCHANGED db

\* UPDATE orders SET status = 'cancelled' WHERE id = %s
cancel_order_update(p) ==
  /\ req[p].op = "cancel_order" /\ req[p].pc = "update"
  /\ orders' = [orders EXCEPT ![req[p].id].status = "cancelled"]
  /\ Finish(p)
  /\ UNCHANGED <<items, balances, transactions, inventory_events>>

-----------------------------------------------------------------------------
(* routers/wallet.py *)

\* the checks of confirm_deposit: the status code raised, 0 if none;
\* the acting user u is authenticated and not looked at again
confirm_deposit_check(u, order_id, token, network) ==
  IF token \notin VALID_TOKENS THEN 400
  ELSE IF network \notin VALID_NETWORKS THEN 400
  ELSE IF order_id \notin DOMAIN orders THEN 404
  ELSE IF orders[order_id].status # "pending" THEN 404
  ELSE 0

\* POST /v1/wallet/deposit/confirm: validation, SELECT the order and the check
confirm_deposit_select(p, u, order_id, tx_hash, amount, token, network) ==
  /\ ~InFlight(p)
  /\ IF confirm_deposit_check(u, order_id, token, network) # 0
     THEN Reject(p, confirm_deposit_check(u, order_id, token, network))
     ELSE /\ Proceed(p, [Idle EXCEPT !.op = "confirm_deposit", !.pc = "order",
                                                    !.id = order_id,
                                                    !.item_id = orders[order_id].item_id,
                                                    !.buyer_id = orders[order_id].buyer_id,
                                                    !.tx_hash = tx_hash, !.amount = amount,
                                                    !.token = token, !.network = network])
          /\ UNCHANGED db

\* UPDATE orders SET status = 'paid', tx_hash = %s WHERE id = %s
confirm_deposit_order(p) ==
  /\ req[p].op = "confirm_deposit" /\ req[p].pc = "order"
  /\ orders' = [orders EXCEPT ![req[p].id].status = "paid",
                              ![req[p].id].tx_hash = Some(req[p].tx_hash)]
  /\ Goto(p, "item")
  /\ UNCHANGED <<items, balances, transactions, inventory_events>>

\* UPDATE items SET status = 'sold' WHERE id = %s
confirm_deposit_item(p) ==
  /\ req[p].op = "confirm_deposit" /\ req[p].pc = "item"
  /\ items' = [items EXCEPT ![req[p].item_id].status = "sold"]
  /\ Goto(p, "balance")
  /\ UNCHANGED <<orders, balances, transactions, inventory_events>>

\* (mutant) the credit overwrites the amount of an existing row
Credit_Overwrite(bal, key, amount) ==
  [k \in DOMAIN bal \cup {key} |-> IF k = key THEN amount ELSE bal[k]]

\* INSERT INTO balances ... ON DUPLICATE KEY UPDATE amount = amount + %s
Credit(bal, key, amount) ==
  IF key \in DOMAIN bal THEN [bal EXCEPT ![key] = @ + amount]
  ELSE [k \in DOMAIN bal \cup {key} |-> IF k = key THEN amount ELSE bal[k]]

confirm_deposit_balance(p) ==
  /\ req[p].op = "confirm_deposit" /\ req[p].pc = "balance"
  /\ balances' = Credit(balances, <<req[p].buyer_id, req[p].token, req[p].network>>, req[p].amount)
  /\ Goto(p, "tx")
  /\ UNCHANGED <<items, orders, transactions, inventory_events>>

\* INSERT INTO transactions (..., 'deposit', ...)
confirm_deposit_tx(p) ==
  /\ req[p].op = "confirm_deposit" /\ req[p].pc = "tx"
  /\ transactions' = Append(transactions,
        [user_id |-> req[p].buyer_id, order_id |-> Some(req[p].id), type |-> "deposit",
         amount |-> req[p].amount, token |-> req[p].token, network |-> req[p].network,
         tx_hash |-> Some(req[p].tx_hash)])
  /\ Goto(p, "event")
  /\ UNCHANGED <<items, orders, balances, inventory_events>>

\* INSERT INTO inventory_events (..., 'received'), 200
confirm_deposit_event(p) ==
  /\ req[p].op = "confirm_deposit" /\ req[p].pc = "event"
  /\ inventory_events' = Append(inventory_events,
        [user_id |-> req[p].buyer_id, item_id |-> req[p].item_id, event_type |-> "received"])
  /\ Finish(p)
  /\ UNCHANGED <<items, orders, balances, transactions>>

\* (mutant) the balance row is looked up but its amount is not compared
Insufficient_RowOnly(bal, key, amount) == key \notin DOMAIN bal

\* if not bal or float(bal["amount"]) < body.amount
Insufficient(bal, key, amount) == key \notin DOMAIN bal \/ bal[key] < amount

\* the checks of withdraw: the status code raised, 0 if none
withdraw_check(u, amount, token, network, to_address) ==
  IF token \notin VALID_TOKENS THEN 400
  ELSE IF network \notin VALID_NETWORKS THEN 400
  ELSE IF ~EVM_ADDRESS_RE_match(to_address) THEN 400
  ELSE IF Insufficient(balances, <<u, token, network>>, amount) THEN 400
  ELSE 0

\* POST /v1/wallet/withdraw: validation, SELECT the balance and the check
withdraw_select(p, u, amount, token, network, to_address) ==
  /\ ~InFlight(p)
  /\ IF withdraw_check(u, amount, token, network, to_address) # 0
     THEN Reject(p, withdraw_check(u, amount, token, network, to_address))
     ELSE /\ Proceed(p, [Idle EXCEPT !.op = "withdraw", !.pc = "balance",
                                                    !.user = u, !.amount = amount,
                                                    !.bal = balances[<<u, token, network>>],
                                                    !.token = token, !.network = network])
          /\ UNCHANGED db

\* UPDATE balances SET amount = amount - %s WHERE user_id = %s AND token = %s AND network = %s
Debit(bal, key, amount) == [bal EXCEPT ![key] = @ - amount]

withdraw_balance(p) ==
  /\ req[p].op = "withdraw" /\ req[p].pc = "balance"
  /\ balances' = Debit(balances, <<req[p].user, req[p].token, req[p].network>>, req[p].amount)
  /\ Goto(p, "tx")
  /\ UNCHANGED <<items, orders, transactions, inventory_events>>

\* (mutant) the withdrawal is logged twice
withdraw_tx_Twice(p) ==
  /\ req[p].op = "withdraw" /\ req[p].pc = "tx"
  /\ transactions' = transactions \o
        << [user_id |-> req[p].user, order_id |-> None, type |-> "withdrawal",
            amount |-> req[p].amount, token |-> req[p].token, network |-> req[p].network,
            tx_hash |-> None],
           [user_id |-> req[p].user, order_id |-> None, type |-> "withdrawal",
            amount |-> req[p].amount, token |-> req[p].token, network |-> req[p].network,
            tx_hash |-> None] >>
  /\ Finish(p)
  /\ UNCHANGED <<items, orders, balances, inventory_events>>

\* INSERT INTO transactions (..., 'withdrawal', ...), 200
withdraw_tx(p) ==
  /\ req[p].op = "withdraw" /\ req[p].pc = "tx"
  /\ transactions' = Append(transactions,
        [user_id |-> req[p].user, order_id |-> None, type |-> "withdrawal",
         amount |-> req[p].amount, token |-> req[p].token, network |-> req[p].network,
         tx_hash |-> None])
  /\ Finish(p)
  /\ UNCHANGED <<items, orders, balances, inventory_events>>

-----------------------------------------------------------------------------
\* a statement raises: the request ends with 500, what it executed stays committed
StatementError(p) ==
  /\ InFlight(p)
  /\ Finish(p)
  /\ UNCHANGED db

\* number of conditions of a tuple of booleans that hold
Count(bs) == Cardinality({k \in DOMAIN bs : bs[k]})

-----------------------------------------------------------------------------
(* src/main.py: the watchlist service.  Handlers are coroutines; every await *)
(* is a point where another request may run.  A write (INSERT, UPDATE,      *)
(* DELETE) and the commit that follows it hold SQLite's write lock, so the  *)
(* pair is one atomic step; reads see committed rows only.                  *)

MaxSeq  == 2                 \* ids the AUTOINCREMENT sequence hands out
WProcs  == {1, 2}            \* concurrent request tasks

SKU_MIN_LENGTH  == 3
SKU_MAX_LENGTH  == 64
NAME_MIN_LENGTH == 2
NAME_MAX_LENGTH == 120
PRICE_MAX       == 100000
NOTE_MAX_LENGTH == 300

Digits == {"0", "1", "2", "3", "4", "5", "6", "7", "8", "9"}
Letters ==
  {"a", "b", "c", "d", "e", "f", "g", "h", "i", "j", "k", "l", "m", "n", "o", "p", "q",
   "r", "s", "t", "u", "v", "w", "x", "y", "z", "A", "B", "C", "D", "E", "F", "G", "H",
   "I", "J", "K", "L", "M", "N", "O", "P", "Q", "R", "S", "T", "U", "V", "W", "X", "Y", "Z"}

\* the string of n characters c
Rep(c, n) == [i \in 1..n |-> c]

\* the segments of s between the ";" characters
RECURSIVE SplitSemi(_, _, _)
SplitSemi(s, cur, out) ==
  IF s = <<>> THEN Append(out, cur)
  ELSE IF Head(s) = ";" THEN SplitSemi(Tail(s), <<>>, Append(out, cur))
  ELSE SplitSemi(Tail(s), Append(cur, Head(s)), out)

AllIn(seg, S) == seg # <<>> /\ \A i \in DOMAIN seg : seg[i] \in S

\* SKU_PATTERN.match(v): ^[0-9]+;[0-9]+(;[A-Za-z0-9\-]+)*$
SKU_PATTERN_match(v) ==
  LET segs == SplitSemi(v, <<>>, <<>>) IN
    /\ Len(segs) >= 2
    /\ AllIn(segs[1], Digits) /\ AllIn(segs[2], Digits)
    /\ \A i \in 3..Len(segs) : AllIn(segs[i], Digits \cup Letters \cup {"-"})

\* "  " in v
HasDoubleSpace(v) == \E i \in 1..(Len(v) - 1) : v[i] = " " /\ v[i + 1] = " "

\* the Field constraints of WatchlistCreate, checked on the value as given
FieldsOk(e) ==
  /\ Len(e.sku) >= SKU_MIN_LENGTH /\ Len(e.sku) <= SKU_MAX_LENGTH
  /\ Len(e.name) >= NAME_MIN_LENGTH /\ Len(e.name) <= NAME_MAX_LENGTH
  /\ e.target_price_ref > 0 /\ e.target_price_ref <= PRICE_MAX
  /\ (IsNone(e.note) \/ Len(e.note[1]) <= NOTE_MAX_LENGTH)

\* validate_sku and validate_name, run after the Field constraints
validate_sku(v)  == strip(v)
validate_name(v) == strip(v)
ValidatorsOk(e)  == SKU_PATTERN_match(strip(e.sku)) /\ ~HasDoubleSpace(strip(e.name))

\* WatchlistCreate(**e): does the model validate, and the fields it then holds
WatchlistCreate_ok(e) == FieldsOk(e) /\ ValidatorsOk(e)
WatchlistCreate(e) ==
  [sku |-> validate_sku(e.sku), name |-> validate_name(e.name),
   target_price_ref |-> e.target_price_ref, note |-> e.note]

NoEntry == [id |-> 0, sku |-> <<>>, name |-> <<>>, target_price_ref |-> 0, note |-> None]

\* row_to_item(row): WatchlistItem(id=row[0], ...) validates the row like a payload
row_to_item_ok(row) == WatchlistCreate_ok(row)
row_to_item(id, row) ==
  [id |-> id, sku |-> validate_sku(row.sku), name |-> validate_name(row.name),
   target_price_ref |-> row.target_price_ref, note |-> row.note]

WIdle == [op |-> "none", pc |-> "idle", id |-> 0, payload |-> NoEntry]
WInFlight(p) == wreq[p].pc # "idle"

\* the response leaves the service
Respond(op, code, id, body) ==
  wresp' = [op |-> op, code |-> code, id |-> id, body |-> body]

\* SELECT ... WHERE id = ? and row_to_item(row): the status code and body that result
ReadBackResult(ok_code, id) ==
  IF id \notin DOMAIN watchlist THEN [code |-> 500, body |-> NoEntry]          \* row is None: TypeError
  ELSE IF ~row_to_item_ok(watchlist[id]) THEN [code |-> 500, body |-> NoEntry] \* ValidationError
  ELSE [code |-> ok_code, body |-> row_to_item(id, watchlist[id])]

ReadBack(op, ok_code, id) ==
  Respond(op, ReadBackResult(ok_code, id).code, id, ReadBackResult(ok_code, id).body)

\* what GET /watchlist/{item_id} answers in the current state
get_item_result(id) ==
  IF id \notin DOMAIN watchlist THEN [code |-> 404, body |-> NoEntry]
  ELSE ReadBackResult(200, id)

\* the UNIQUE constraint on sku: a row other than `id` holds this sku
SkuTaken(sku, id) == \E j \in DOMAIN watchlist : j # id /\ watchlist[j].sku = sku

WatchInit ==
  /\ watchlist = [i \in {} |-> NoEntry]
  /\ seq = 0
  /\ wreq = [p \in WProcs |-> WIdle]
  /\ wresp = [op |-> "none", code |-> 0, id |-> 0, body |-> NoEntry]

\* id INTEGER PRIMARY KEY AUTOINCREMENT: one more than the largest id ever assigned
NewId(w, s) == s + 1

\* INSERT INTO watchlist of one row
InsertRow(w, id, row) == [i \in DOMAIN w \cup {id} |-> IF i = id THEN row ELSE w[i]]

\* POST /watchlist: validation, INSERT and commit
watch_create_insert(p, e) ==
  /\ ~WInFlight(p)
  /\ UNCHANGED outside_watch
  /\ IF ~WatchlistCreate_ok(e)
     THEN Respond("create", 422, 0, NoEntry) /\ UNCHANGED <<watchlist, seq, wreq>>
     ELSE IF SkuTaken(WatchlistCreate(e).sku, 0)
     THEN Respond("create", 409, 0, NoEntry) /\ UNCHANGED <<watchlist, seq, wreq>>
     ELSE /\ seq < MaxSeq
          /\ watchlist' = InsertRow(watchlist, NewId(watchlist, seq), WatchlistCreate(e))
          /\ seq' = IF NewId(watchlist, seq) > seq THEN NewId(watchlist, seq) ELSE seq
          /\ wreq' = [wreq EXCEPT ![p] = [WIdle EXCEPT !.op = "create", !.pc = "select",
                                                      !.id = NewId(watchlist, seq)]]
          /\ UNCHANGED wresp

\* SELECT the row of cur.lastrowid, return row_to_item(row)
watch_create_select(p) ==
  /\ wreq[p].op = "create" /\ wreq[p].pc = "select"
  /\ UNCHANGED outside_watch
  /\ ReadBack("create", 201, wreq[p].id)
  /\ wreq' = [wreq EXCEPT ![p] = WIdle]
  /\ UNCHANGED <<watchlist, seq>>

\* GET /watchlist/{item_id}
watch_get_item(p, id) ==
  /\ ~WInFlight(p)
  /\ UNCHANGED outside_watch
  /\ Respond("get", get_item_result(id).code, id, get_item_result(id).body)
  /\ UNCHANGED <<watchlist, seq, wreq>>

\* PUT /watchlist/{item_id}: validation, SELECT id, the existence check
watch_update_check(p, id, e) ==
  /\ ~WInFlight(p)
  /\ UNCHANGED outside_watch
  /\ IF ~WatchlistCreate_ok(e)
     THEN Respond("update", 422, id, NoEntry) /\ UNCHANGED <<watchlist, seq, wreq>>
     ELSE IF id \notin DOMAIN watchlist
     THEN Respond("update", 404, id, NoEntry) /\ UNCHANGED <<watchlist, seq, wreq>>
     ELSE /\ wreq' = [wreq EXCEPT ![p] = [op |-> "update", pc |-> "write", id |-> id,
                                           payload |-> [id |-> id] @@ WatchlistCreate(e)]]
          /\ UNCHANGED <<watchlist, seq, wresp>>

\* UPDATE watchlist SET ... WHERE id = ? of the rows with this id (none or one)
UpdateRow(w, id, row) == [i \in DOMAIN w |-> IF i = id THEN row ELSE w[i]]

\* UPDATE and commit; IntegrityError gives 409
watch_update_write(p) ==
  LET r   == wreq[p]
      row == [sku |-> r.payload.sku, name |-> r.payload.name,
              target_price_ref |-> r.payload.target_price_ref, note |-> r.payload.note]
  IN
  /\ r.op = "update" /\ r.pc = "write"
  /\ UNCHANGED outside_watch
  /\ IF r.id \in DOMAIN watchlist /\ SkuTaken(row.sku, r.id)
     THEN /\ Respond("update", 409, r.id, NoEntry)
          /\ wreq' = [wreq EXCEPT ![p] = WIdle]
          /\ UNCHANGED <<watchlist, seq>>
     ELSE /\ watchlist' = UpdateRow(watchlist, r.id, row)
          /\ wreq' = [wreq EXCEPT ![p].pc = "select"]
          /\ UNCHANGED <<seq, wresp>>

\* SELECT the row, return row_to_item(row)
watch_update_select(p) ==
  /\ wreq[p].op = "update" /\ wreq[p].pc = "select"
  /\ UNCHANGED outside_watch
  /\ ReadBack("update", 200, wreq[p].id)
  /\ wreq' = [wreq EXCEPT ![p] = WIdle]
  /\ UNCHANGED <<watchlist, seq>>

\* (mutant) DELETE removes nothing
DeleteRow_Keep(w, id) == w

\* DELETE FROM watchlist WHERE id = ?
DeleteRow(w, id) == [i \in DOMAIN w \ {id} |-> w[i]]

\* DELETE /watchlist/{item_id}: DELETE, commit, rowcount
watch_delete_item(p, id) ==
  /\ ~WInFlight(p)
  /\ UNCHANGED outside_watch
  /\ watchlist' = DeleteRow(watchlist, id)
  /\ IF id \notin DOMAIN watchlist THEN Respond("delete", 404, id, NoEntry)
     ELSE Respond("delete", 204, id, NoEntry)
  /\ UNCHANGED <<seq, wreq>>

\* request inputs of the watchlist service
WatchIds   == 1..MaxSeq
BaseBody == [sku |-> <<"5", ";", "6">>, name |-> <<"k", "e", "y">>,
             target_price_ref |-> 80, note |-> None]

\* payloads that validate: sku and name with and without surrounding blanks, a name
\* of one character after strip, a name of blanks only, with and without a note
ValidBodies ==
  {BaseBody,
   [BaseBody EXCEPT !.sku = <<" ", "5", ";", "6">>, !.name = <<" ", "k">>, !.note = Some(<<"n">>)],
   [BaseBody EXCEPT !.sku = <<"7", ";", "6", ";", "u", "-">>, !.note = Some(<<"n">>)],
   [BaseBody EXCEPT !.sku = <<"7", ";", "6", ";", "u", "-">>, !.name = <<" ", " ">>]}

BadSkus   == {<<"5", ";">>, <<"5", ";", "_">>}
BadNames  == {<<"k">>, <<"k", " ", " ", "y">>}
BadPrices == {0, PRICE_MAX + 1}
BadNotes  == {Some(Rep("n", NOTE_MAX_LENGTH + 1))}

\* payloads with exactly one field invalid
InvalidBodies ==
  {[BaseBody EXCEPT !.sku = v] : v \in BadSkus}
    \cup {[BaseBody EXCEPT !.name = v] : v \in BadNames}
    \cup {[BaseBody EXCEPT !.target_price_ref = v] : v \in BadPrices}
    \cup {[BaseBody EXCEPT !.note = v] : v \in BadNotes}

WatchBodies == ValidBodies \cup InvalidBodies

WatchBegin(p) ==
  \/ \E e \in WatchBodies : watch_create_insert(p, e)
  \/ \E i \in WatchIds : watch_get_item(p, i)
  \/ \E i \in WatchIds, e \in WatchBodies : watch_update_check(p, i, e)
  \/ \E i \in WatchIds : watch_delete_item(p, i)

WatchStep(p) ==
  \/ watch_create_select(p)
  \/ watch_update_write(p)
  \/ watch_update_select(p)

WatchNext == \E p \in WProcs : WatchBegin(p) \/ WatchStep(p)

WQuiescent == \A p \in WProcs : ~WInFlight(p)

\* watchlist requests served one after another
WatchNextSeq == \E p \in WProcs : (WQuiescent /\ WatchBegin(p)) \/ WatchStep(p)

-----------------------------------------------------------------------------
(* routers/auth.py: POST /v1/auth/steam.  The connection is autocommit, so  *)
(* the SELECT, the INSERT and the second SELECT are separate statements.    *)
(* The schema of the users table is not part of the sources; the data model *)
(* calls steam_id a unique external identity, and both a table with and a   *)
(* table without UNIQUE(steam_id) are covered.                              *)

LProcs   == {1, 2}              \* concurrent login requests
SteamIds == {"s1", "s2"}        \* body.steam_id

LIdle == [pc |-> "idle", steam_id |-> ""]
LInFlight(p) == lreq[p].pc # "idle"

\* the rows SELECT * FROM users WHERE steam_id = %s finds
UsersOf(steam_id) == {i \in DOMAIN users : users[i].steam_id = steam_id}

\* return {"token": ..., "user": {"id": user["id"], ...}}, or the error that leaves
LRespond(steam_id, code, user_id) ==
  lresp' = [steam_id |-> steam_id, code |-> code, user_id |-> user_id]

AuthInit ==
  /\ users = <<>>
  /\ lreq = [p \in LProcs |-> LIdle]
  /\ lresp = [steam_id |-> "", code |-> 0, user_id |-> 0]

\* SELECT * FROM users WHERE steam_id = %s; user = cur.fetchone()
steam_login_select(p, steam_id) ==
  /\ ~LInFlight(p)
  /\ UNCHANGED outside_auth
  /\ UNCHANGED <<users, steam_id_unique>>
  /\ IF UsersOf(steam_id) # {}
     THEN /\ \E i \in UsersOf(steam_id) : LRespond(steam_id, 200, i)
          /\ UNCHANGED lreq
     ELSE /\ lreq' = [lreq EXCEPT ![p] = [pc |-> "insert", steam_id |-> steam_id]]
          /\ UNCHANGED lresp

\* INSERT INTO users (steam_id, username): refused by a UNIQUE(steam_id) index when a
\* row with the steam_id exists
MayInsert(unique, rows) == ~unique \/ rows = {}

\* if not user: INSERT INTO users; an IntegrityError is not caught
steam_login_insert(p) ==
  /\ lreq[p].pc = "insert"
  /\ UNCHANGED outside_auth
  /\ UNCHANGED steam_id_unique
  /\ IF MayInsert(steam_id_unique, UsersOf(lreq[p].steam_id))
     THEN /\ users' = Append(users, [steam_id |-> lreq[p].steam_id])
          /\ lreq' = [lreq EXCEPT ![p].pc = "select"]
          /\ UNCHANGED lresp
     ELSE /\ LRespond(lreq[p].steam_id, 500, 0)
          /\ lreq' = [lreq EXCEPT ![p] = LIdle]
          /\ UNCHANGED users

\* SELECT * FROM users WHERE steam_id = %s; user = cur.fetchone(); return
steam_login_return(p) ==
  /\ lreq[p].pc = "select"
  /\ UNCHANGED outside_auth
  /\ UNCHANGED <<users, steam_id_unique>>
  /\ \E i \in UsersOf(lreq[p].steam_id) : LRespond(lreq[p].steam_id, 200, i)
  /\ lreq' = [lreq EXCEPT ![p] = LIdle]

AuthNext ==
  \E p \in LProcs :
    \/ \E s \in SteamIds : steam_login_select(p, s)
    \/ steam_login_insert(p)
    \/ steam_login_return(p)

LQuiescent == \A p \in LProcs : ~LInFlight(p)

\* logins served one after another
AuthNextSeq ==
  \E p \in LProcs :
    \/ LQuiescent /\ \E s \in SteamIds : steam_login_select(p, s)
    \/ steam_login_insert(p)
    \/ steam_login_return(p)

-----------------------------------------------------------------------------
(* src/main.py: the listing normalizer of GET /market/listings, from        *)
(* data = r.json() to lowest_sell / highest_buy.  A decoded JSON value is a *)
(* record: t its Python type and one field for its content; a dict is the   *)
(* sequence of its <<key, value>> pairs in insertion order.                 *)

JNull     == [t |-> "null"]
JBool(v)  == [t |-> "bool", b |-> v]
JInt(n)   == [t |-> "int",  i |-> n]
JStr(c)   == [t |-> "str",  s |-> c]
JList(xs) == [t |-> "list", l |-> xs]
JDict(ps) == [t |-> "dict", d |-> ps]

\* key in d, d.get(key), list(d.values())
has(d, key) == \E i \in DOMAIN d.d : d.d[i][1] = key
get(d, key) == IF has(d, key) THEN d.d[CHOOSE i \in DOMAIN d.d : d.d[i][1] = key][2] ELSE JNull
values(d)   == [i \in DOMAIN d.d |-> d.d[i][2]]

\* isinstance(x, int): bool is a subclass of int, and True is 1, False is 0
is_int(x) == x.t \in {"int", "bool"}
int_of(x) == IF x.t = "bool" THEN (IF x.b THEN 1 ELSE 0) ELSE x.i

\* x == y
py_eq(x, y) == IF is_int(x) /\ is_int(y) THEN int_of(x) = int_of(y) ELSE x = y

\* bool(x)
truthy(x) ==
  CASE x.t = "null" -> FALSE
    [] x.t = "bool" -> x.b
    [] x.t = "int"  -> x.i # 0
    [] x.t = "str"  -> x.s # ""
    [] x.t = "list" -> x.l # <<>>
    [] x.t = "dict" -> x.d # <<>>

as_list(x) ==
  IF x.t = "list" THEN x.l
  ELSE IF x.t = "dict" THEN values(x)
  ELSE <<>>

\* (mutant) only a top-level 'listings' key is looked at
extract_listings_TopLevelOnly(data) ==
  IF data.t = "dict" /\ has(data, "listings") THEN as_list(get(data, "listings")) ELSE <<>>

\* _extract_listings(data)
extract_listings(data) ==
  IF data.t # "dict" THEN <<>>
  ELSE IF has(data, "listings") THEN as_list(get(data, "listings"))
  ELSE LET results == get(data, "results")
           wrapper == get(data, "data")
       IN  IF results.t = "list" THEN results.l
           ELSE IF results.t = "dict"
                THEN IF has(results, "listings") THEN as_list(get(results, "listings"))
                     ELSE as_list(results)
           ELSE IF wrapper.t = "dict" /\ has(wrapper, "listings")
                THEN as_list(get(wrapper, "listings"))
           ELSE IF wrapper.t = "dict" /\ has(wrapper, "results")
                     /\ get(wrapper, "results").t = "list"
                THEN get(wrapper, "results").l
           ELSE IF wrapper.t = "dict" /\ has(wrapper, "results")
                     /\ get(wrapper, "results").t = "dict"
                THEN IF has(get(wrapper, "results"), "listings")
                     THEN as_list(get(get(wrapper, "results"), "listings"))
                     ELSE as_list(get(wrapper, "results"))
           ELSE IF wrapper.t = "list" THEN wrapper.l
           ELSE <<>>

\* the body of `for lst in listings`: does it raise (lst.get or cur.get on a value
\* that is not a dict), and the side and price it adds
currencies_of(lst) ==
  IF truthy(get(lst, "currencies")) THEN get(lst, "currencies") ELSE JDict(<<>>)
listing_raises(lst) == lst.t # "dict" \/ currencies_of(lst).t # "dict"
intent_of(lst) ==
  LET intent == get(lst, "intent") IN
    IF is_int(intent) THEN (IF int_of(intent) = 0 THEN JStr("buy") ELSE JStr("sell")) ELSE intent
price_of(lst) ==
  [keys |-> get(currencies_of(lst), "keys"), metal |-> get(currencies_of(lst), "metal")]

\* the loop over the listings from index i on, given what it has collected
RECURSIVE partition(_, _, _)
partition(listings, i, acc) ==
  IF i > Len(listings) THEN acc
  ELSE IF listing_raises(listings[i]) THEN [acc EXCEPT !.raised = TRUE]
  ELSE IF intent_of(listings[i]) = JStr("sell")
       THEN partition(listings, i + 1, [acc EXCEPT !.sells = Append(@, price_of(listings[i]))])
  ELSE IF intent_of(listings[i]) = JStr("buy")
       THEN partition(listings, i + 1, [acc EXCEPT !.buys = Append(@, price_of(listings[i]))])
  ELSE partition(listings, i + 1, acc)

MISSING == 1000000000      \* 10**9

\* sort_key(p)
sort_key(p) ==
  <<IF p.keys.t # "null" THEN p.keys ELSE JInt(MISSING),
    IF p.metal.t # "null" THEN p.metal ELSE JInt(MISSING)>>

\* x < y of two values: "yes", "no", or "err" (TypeError).  Only numbers are ordered
\* here; the inputs hold no two different strings.
value_lt(x, y) ==
  IF is_int(x) /\ is_int(y) THEN (IF int_of(x) < int_of(y) THEN "yes" ELSE "no") ELSE "err"

\* a < b of two key tuples: the first position where they differ decides
tuple_lt(a, b) ==
  IF ~py_eq(a[1], b[1]) THEN value_lt(a[1], b[1])
  ELSE IF ~py_eq(a[2], b[2]) THEN value_lt(a[2], b[2])
  ELSE "no"

\* min(prices, key=sort_key) and max(prices, key=sort_key) from index i on with the
\* best so far; <<>> stands for a TypeError
RECURSIVE min_from(_, _, _)
min_from(prices, i, best) ==
  IF i > Len(prices) THEN <<best>>
  ELSE LET c == tuple_lt(sort_key(prices[i]), sort_key(best)) IN
         IF c = "err" THEN <<>>
         ELSE min_from(prices, i + 1, IF c = "yes" THEN prices[i] ELSE best)

RECURSIVE max_from(_, _, _)
max_from(prices, i, best) ==
  IF i > Len(prices) THEN <<best>>
  ELSE LET c == tuple_lt(sort_key(best), sort_key(prices[i])) IN
         IF c = "err" THEN <<>>
         ELSE max_from(prices, i + 1, IF c = "yes" THEN prices[i] ELSE best)

\* min(prices, key=sort_key) if prices else None, and whether it raised
min_of(prices) ==
  IF prices = <<>> THEN [raised |-> FALSE, best |-> None]
  ELSE [raised |-> min_from(prices, 2, prices[1]) = <<>>, best |-> min_from(prices, 2, prices[1])]

max_of(prices) ==
  IF prices = <<>> THEN [raised |-> FALSE, best |-> None]
  ELSE [raised |-> max_from(prices, 2, prices[1]) = <<>>, best |-> max_from(prices, 2, prices[1])]

NoPayload == [t |-> "none"]
NoOutcome == [state |-> "none", at |-> "", extracted |-> <<>>, sells |-> <<>>, buys |-> <<>>,
              lowest_sell |-> None, highest_buy |-> None]

\* market_listings from data = r.json() on: state "ok" with the listings extracted,
\* the two sides and the extremes (None or Some(price)), or state "raised" when an
\* exception leaves the handler, with the place it was raised at
normalize(data) ==
  LET listings == extract_listings(data)
      parts    == partition(listings, 1, [raised |-> FALSE, sells |-> <<>>, buys |-> <<>>])
  IN  IF parts.raised
      THEN [NoOutcome EXCEPT !.state = "raised", !.at = "partition", !.extracted = listings]
      ELSE IF min_of(parts.sells).raised \/ max_of(parts.buys).raised
      THEN [NoOutcome EXCEPT !.state = "raised", !.at = "extremes", !.extracted = listings]
      ELSE [state |-> "ok", at |-> "", extracted |-> listings,
            sells |-> parts.sells, buys |-> parts.buys,
            lowest_sell |-> min_of(parts.sells).best, highest_buy |-> max_of(parts.buys).best]

\* no upstream response has arrived
NormIdle == payload = NoPayload /\ outcome = NoOutcome

\* listings = _extract_listings(data) ... highest_buy = max(...)
market_listings ==
  /\ payload # NoPayload /\ outcome.state = "none"
  /\ outcome' = normalize(payload)
  /\ UNCHANGED payload
  /\ UNCHANGED outside_norm

NormNext == market_listings

\* the decoded upstream bodies: listings of two sides, with and without prices, an
\* element that is no mapping and a price that is no mapping, in every container shape
MaxListings == 2

Listing(intent, currencies) == JDict(<<<<"intent", intent>>, <<"currencies", currencies>>>>)
Currencies(keys, metal) == JDict(<<<<"keys", keys>>, <<"metal", metal>>>>)

Elements ==
  { Listing(JStr("sell"), Currencies(JInt(1), JInt(5))),
    Listing(JStr("sell"), Currencies(JInt(1), JInt(2))),
    Listing(JInt(1), JDict(<<<<"metal", JInt(3)>>>>)),
    Listing(JStr("sell"), Currencies(JInt(MISSING), JInt(3))),
    Listing(JStr("sell"), JDict(<<<<"keys", JStr("a")>>>>)),
    Listing(JStr("buy"), JDict(<<<<"keys", JInt(2)>>>>)),
    Listing(JInt(0), Currencies(JInt(2), JInt(1))),
    Listing(JStr("buy"), JNull),
    Listing(JStr("sell"), Currencies(JInt(2 * MISSING), JInt(3))),
    Listing(JBool(TRUE), Currencies(JInt(3), JInt(1))),
    Listing(JBool(FALSE), Currencies(JInt(1), JInt(1))),
    Listing(JStr("sell"), JList(<<JInt(1)>>)),
    JDict(<<<<"intent", JStr("trade")>>>>),
    JInt(1) }

Collections == UNION { [1..n -> Elements] : n \in 0..MaxListings }

\* the mapping {"1": xs[1], "2": xs[2], ...}
Keyed(xs) == JDict([i \in DOMAIN xs |-> <<ToString(i), xs[i]>>])
Obj1(k, x) == JDict(<<<<k, x>>>>)
Obj2(k1, x1, k2, x2) == JDict(<<<<k1, x1>>, <<k2, x2>>>>)

Shapes(xs) ==
  { JList(xs),
    Obj1("listings", JList(xs)),
    Obj1("listings", Keyed(xs)),
    Obj1("results", JList(xs)),
    Obj1("results", Keyed(xs)),
    Obj1("results", Obj1("listings", JList(xs))),
    Obj1("data", JList(xs)),
    Obj1("data", Obj1("listings", JList(xs))),
    Obj1("data", Obj1("results", JList(xs))),
    Obj1("data", Obj1("results", Keyed(xs))),
    Obj1("data", Obj1("results", Obj1("listings", JList(xs)))),
    Obj2("results", JInt(3), "data", JList(xs)),
    Obj2("listings", JNull, "results", JList(xs)),
    Obj2("results", JList(xs), "data", Obj1("listings", JList(<<JInt(1)>>))) }

OddPayloads ==
  { JNull, JInt(3), JStr("x"), JDict(<<>>),
    Obj1("listings", JInt(3)), Obj1("listings", JStr("x")),
    Obj1("results", JInt(3)), Obj1("data", JInt(3)),
    Obj1("data", Obj1("other", JInt(1))),
    Obj1("data", Obj1("results", JInt(3))),
    Obj1("other", JList(<<JInt(1)>>)) }

Payloads == OddPayloads \cup UNION { Shapes(xs) : xs \in Collections }

NormInit == payload \in Payloads /\ outcome = NoOutcome

-----------------------------------------------------------------------------
(* src/main.py: parse_bptf_stats_url.  A string is the sequence of its      *)
(* characters.  The URL is given as urlparse splits it: the netloc, made of *)
(* userinfo, host and port, each a sequence of pieces of text, and the path *)
(* as a string.                                                             *)

UpperCase == <<"A", "B", "C", "D", "E", "F", "G", "H", "I", "J", "K", "L", "M",
               "N", "O", "P", "Q", "R", "S", "T", "U", "V", "W", "X", "Y", "Z">>
LowerCase == <<"a", "b", "c", "d", "e", "f", "g", "h", "i", "j", "k", "l", "m",
               "n", "o", "p", "q", "r", "s", "t", "u", "v", "w", "x", "y", "z">>

\* s.lower()
lower(s) ==
  [i \in DOMAIN s |->
     IF \E k \in DOMAIN UpperCase : UpperCase[k] = s[i]
     THEN LowerCase[CHOOSE k \in DOMAIN UpperCase : UpperCase[k] = s[i]]
     ELSE s[i]]

\* a character that str.isdigit accepts and int() does not: SUPERSCRIPT TWO
SUP2 == "sup2"

\* s.isdigit(): not empty, every character a decimal digit or another digit character
isdigit(s) == s # <<>> /\ \A i \in DOMAIN s : s[i] \in Digits \cup {SUP2}

\* int(s) of a string of digit characters: ValueError unless all are decimal digits
int_raises(s) == \E i \in DOMAIN s : s[i] \notin Digits
DecimalDigits == <<"0", "1", "2", "3", "4", "5", "6", "7", "8", "9">>
RECURSIVE int(_, _)
int(s, acc) ==
  IF s = <<>> THEN acc
  ELSE int(Tail(s), 10 * acc + (CHOOSE d \in 0..9 : DecimalDigits[d + 1] = Head(s)))

\* unquote(s): %27 is an apostrophe and %2F a slash; other text is kept
RECURSIVE unquote(_)
unquote(s) ==
  IF s = <<>> THEN <<>>
  ELSE IF Len(s) >= 3 /\ SubSeq(s, 1, 3) = <<"%", "2", "7">> THEN <<"'">> \o unquote(SubSeq(s, 4, Len(s)))
  ELSE IF Len(s) >= 3 /\ SubSeq(s, 1, 3) = <<"%", "2", "F">> THEN <<"/">> \o unquote(SubSeq(s, 4, Len(s)))
  ELSE <<Head(s)>> \o unquote(Tail(s))

\* s.split("/")
RECURSIVE split(_, _, _)
split(s, cur, out) ==
  IF s = <<>> THEN Append(out, cur)
  ELSE IF Head(s) = "/" THEN split(Tail(s), <<>>, Append(out, cur))
  ELSE split(Tail(s), Append(cur, Head(s)), out)

\* QUALITY_NAME_TO_ID.get(quality_name)
QUALITY_NAME_TO_ID_get(quality_name) ==
  CASE quality_name = <<"U", "n", "i", "q", "u", "e">> -> Some(6)
    [] quality_name = <<"G", "e", "n", "u", "i", "n", "e">> -> Some(1)
    [] quality_name = <<"V", "i", "n", "t", "a", "g", "e">> -> Some(3)
    [] quality_name = <<"U", "n", "u", "s", "u", "a", "l">> -> Some(5)
    [] quality_name = <<"S", "t", "r", "a", "n", "g", "e">> -> Some(11)
    [] quality_name = <<"H", "a", "u", "n", "t", "e", "d">> -> Some(13)
    [] quality_name = <<"C", "o", "l", "l", "e", "c", "t", "o", "r", "'", "s">> -> Some(14)
    [] quality_name = <<"C", "o", "l", "l", "e", "c", "t", "o", "r", "s">> -> Some(14)
    [] quality_name = <<"D", "e", "c", "o", "r", "a", "t", "e", "d">> -> Some(15)
    [] OTHER -> None

VENDOR == "backpack.tf"

\* p.netloc of urlparse(u)
netloc(u) == u.userinfo \o u.host \o u.port

\* urlparse(u) raises ValueError (Invalid IPv6 URL) when only one of the brackets
\* is in the netloc
urlparse_raises(u) ==
  (\E i \in DOMAIN netloc(u) : netloc(u)[i] = "[") # (\E i \in DOMAIN netloc(u) : netloc(u)[i] = "]")

\* p.netloc.endswith("backpack.tf")
netloc_ok(u) == netloc(u) # <<>> /\ netloc(u)[Len(netloc(u))] = VENDOR

\* parts = [seg for seg in p.path.split("/") if seg]
parts_of(u) ==
  LET NonEmpty(seg) == seg # <<>> IN SelectSeq(split(u.path, <<>>, <<>>), NonEmpty)

MIN_PARTS == 5
STATS == <<"s", "t", "a", "t", "s">>
TRADABLE == <<"t", "r", "a", "d", "a", "b", "l", "e">>
CRAFTABLE == <<"c", "r", "a", "f", "t", "a", "b", "l", "e">>

NoParse == [state |-> "none", item_name |-> <<>>, quality |-> None, tradable |-> 0,
            craftable |-> 0, particle |-> None]

\* parse_bptf_stats_url(stats_url): state "invalid" is HTTPException(422), "raised"
\* an exception that is no HTTPException, "ok" the dict returned
parse_bptf_stats_url(u) ==
  IF urlparse_raises(u) THEN [NoParse EXCEPT !.state = "raised"]
  ELSE IF ~netloc_ok(u) THEN [NoParse EXCEPT !.state = "invalid"]
  ELSE LET parts == parts_of(u) IN
    IF Len(parts) < MIN_PARTS \/ parts[1] # STATS THEN [NoParse EXCEPT !.state = "invalid"]
    ELSE IF Len(parts) >= 6 /\ isdigit(unquote(parts[6])) /\ int_raises(unquote(parts[6]))
         THEN [NoParse EXCEPT !.state = "raised"]
    ELSE [state |-> "ok",
          item_name |-> unquote(parts[3]),
          quality |-> QUALITY_NAME_TO_ID_get(unquote(parts[2])),
          tradable |-> IF lower(unquote(parts[4])) = TRADABLE THEN 1 ELSE 0,
          craftable |-> IF lower(unquote(parts[5])) = CRAFTABLE THEN 1 ELSE 0,
          particle |-> IF Len(parts) >= 6 /\ isdigit(unquote(parts[6]))
                       THEN Some(int(unquote(parts[6]), 0)) ELSE None]

NoUrl == [userinfo |-> <<>>, host |-> <<>>, port |-> <<>>, path |-> <<"-">>]

\* no stats URL has been given
UrlIdle == stats_url = NoUrl /\ parsed = NoParse

\* parsed = parse_bptf_stats_url(stats_url)
market_listings_from_stats ==
  /\ stats_url # NoUrl /\ parsed.state = "none"
  /\ parsed' = parse_bptf_stats_url(stats_url)
  /\ UNCHANGED stats_url
  /\ UNCHANGED outside_urlp

UrlNext == market_listings_from_stats

\* the stats URLs: hosts inside and outside the vendor domain, with a port, without
\* a scheme and with a lone bracket; paths of four to seven segments
Netlocs ==
  { [userinfo |-> <<>>, host |-> <<VENDOR>>, port |-> <<>>],
    [userinfo |-> <<>>, host |-> <<"www.", VENDOR>>, port |-> <<>>],
    [userinfo |-> <<>>, host |-> <<"not", VENDOR>>, port |-> <<>>],
    [userinfo |-> <<>>, host |-> <<"example.com">>, port |-> <<>>],
    [userinfo |-> <<>>, host |-> <<VENDOR, ".example.com">>, port |-> <<>>],
    [userinfo |-> <<>>, host |-> <<VENDOR>>, port |-> <<":", "8080">>],
    [userinfo |-> <<"user", "@">>, host |-> <<VENDOR>>, port |-> <<>>],
    [userinfo |-> <<>>, host |-> <<"[", VENDOR>>, port |-> <<>>],
    [userinfo |-> <<>>, host |-> <<>>, port |-> <<>>] }

Seg0 == { STATS, <<"S", "t", "a", "t", "s">>, <<"i", "t", "e", "m">> }
Seg1 == { <<"U", "n", "u", "s", "u", "a", "l">>, <<"U", "n", "i", "q", "u", "e">>, <<"C", "o", "l", "l", "e", "c", "t", "o", "r", "%", "2", "7", "s">>, <<"R", "a", "r", "e">> }
Seg2 == { <<"C", "o", "n", "q", "u", "i", "s", "t", "a", "d", "o", "r">>, <<"a", "%", "2", "F", "b">> }
Seg3 == { <<"T", "r", "a", "d", "a", "b", "l", "e">>, TRADABLE, <<"N", "o", "n", "-", "T", "r", "a", "d", "a", "b", "l", "e">> }
Seg4 == { <<"C", "r", "a", "f", "t", "a", "b", "l", "e">>, <<"C", "R", "A", "F", "T", "A", "B", "L", "E">>, <<"N", "o", "n", "-", "C", "r", "a", "f", "t", "a", "b", "l", "e">> }
Seg5 == { <<"8", "9">>, <<"0", "0", "7">>, <<"8", "a">>, <<"2", SUP2>>, <<>> }

\* "/" before every segment; an empty segment gives a doubled or a trailing slash
RECURSIVE JoinPath(_)
JoinPath(segs) == IF segs = <<>> THEN <<>> ELSE <<"/">> \o Head(segs) \o JoinPath(Tail(segs))

SegLists ==
  UNION { { <<a, b, c, d>>, <<a, b, c, d, e>>, <<a, b, c, d, e, f>>, <<a, <<>>, b, c, d, e, f>>,
            <<a, b, c, d, e, f, <<"x">>>> } :
          <<a, b, c, d, e, f>> \in Seg0 \X Seg1 \X Seg2 \X Seg3 \X Seg4 \X Seg5 }

StatsUrls ==
  { [userinfo |-> n.userinfo, host |-> n.host, port |-> n.port, path |-> JoinPath(l)] :
      n \in Netlocs, l \in SegLists }

UrlInit == stats_url \in StatsUrls /\ parsed = NoParse

-----------------------------------------------------------------------------
(* src/main.py: GET /market/listings up to data = r.json().  The handler    *)
(* runs to its one await, the call of the upstream, and from the answer to  *)
(* its end.                                                                 *)

\* (os.getenv(name) or "").strip(), of a variable that is unset (None) or set
getenv_stripped(v) == IF IsNone(v) THEN <<>> ELSE strip(v[1])

\* (mutant) the key is preferred to the token
choose_auth_KeyFirst(e) ==
  IF getenv_stripped(e.key) # <<>> THEN "key_query"
  ELSE IF getenv_stripped(e.token) # <<>> THEN "token_query"
  ELSE "none"

\* _choose_auth(params): the auth_used it returns
choose_auth(e) ==
  IF getenv_stripped(e.token) # <<>> THEN "token_query"
  ELSE IF getenv_stripped(e.key) # <<>> THEN "key_query"
  ELSE "none"

NoResponse == [code |-> 0, retry_after |-> None, auth_used |-> "", sell |-> 0, buy |-> 0]

\* raise HTTPException(status_code=code), or the exception that becomes a 500
QFail(code, retry_after) ==
  /\ qresp' = [NoResponse EXCEPT !.code = code, !.retry_after = retry_after]
  /\ qpc' = "done"

\* no query has been made
QueryIdle ==
  /\ env = [token |-> None, key |-> None] /\ item_name = <<>>
  /\ upstream = [kind |-> "none"]
  /\ qpc = "off" /\ auth_used = "" /\ calls = 0 /\ qresp = NoResponse

\* item_name.strip(); 422 if empty; params; params, auth_used = _choose_auth(params)
query_start ==
  /\ qpc = "start"
  /\ IF strip(item_name) = <<>>
     THEN QFail(422, None) /\ UNCHANGED auth_used
     ELSE qpc' = "get" /\ auth_used' = choose_auth(env) /\ UNCHANGED qresp
  /\ UNCHANGED <<env, item_name, upstream, calls, norm>>
  /\ UNCHANGED outside_query

\* r = await client.get(url, ...) and what follows up to data = r.json()
query_get ==
  /\ qpc = "get"
  /\ calls' = calls + 1
  /\ CASE upstream.kind = "error" ->
            QFail(502, None) /\ UNCHANGED norm
       [] upstream.kind = "response" /\ upstream.status_code = 429 ->
            QFail(429, upstream.retry_after) /\ UNCHANGED norm
       [] upstream.kind = "response" /\ upstream.status_code \notin {200, 429} ->
            QFail(502, None) /\ UNCHANGED norm
       [] upstream.kind = "response" /\ upstream.status_code = 200 /\ ~upstream.is_json ->
            QFail(500, None) /\ UNCHANGED norm
       [] upstream.kind = "response" /\ upstream.status_code = 200 /\ upstream.is_json ->
            /\ payload' = upstream.body /\ outcome' = NoOutcome
            /\ qpc' = "normalize" /\ UNCHANGED qresp
  /\ UNCHANGED <<env, item_name, upstream, auth_used>>
  /\ UNCHANGED outside_query

\* return {"listing_counts": ..., "auth_used": auth_used, ...}, or the exception the
\* normalization raised
query_return ==
  /\ qpc = "normalize" /\ outcome.state # "none"
  /\ IF outcome.state = "raised"
     THEN QFail(500, None)
     ELSE /\ qresp' = [code |-> 200, retry_after |-> None, auth_used |-> auth_used,
                       sell |-> Len(outcome.sells), buy |-> Len(outcome.buys)]
          /\ qpc' = "done"
  /\ UNCHANGED <<env, item_name, upstream, auth_used, calls, norm>>
  /\ UNCHANGED outside_query

QueryNext == query_start \/ query_get \/ market_listings \/ query_return

\* the environment, the item names and the behaviours of the upstream
EnvValues == {None, Some(<<>>), Some(<<" ">>), Some(<<" ", "a", "b">>)}
Envs == [token : EnvValues, key : EnvValues]
ItemNames == {<<>>, <<" ">>, <<" ", "K", "e", "y">>}
Bodies ==
  { JDict(<<>>),
    Obj1("listings", JList(<<Listing(JStr("sell"), Currencies(JInt(1), JInt(5))),
                             Listing(JInt(0), Currencies(JInt(2), JInt(1)))>>)),
    Obj1("listings", JList(<<JInt(1)>>)) }
NoBody == JNull
Upstreams ==
  {[kind |-> "error"]}
  \cup [kind : {"response"}, status_code : {429}, retry_after : {None, Some("30")},
        is_json : {FALSE}, body : {NoBody}]
  \cup [kind : {"response"}, status_code : {204, 301, 404, 500}, retry_after : {None},
        is_json : {FALSE}, body : {NoBody}]
  \cup [kind : {"response"}, status_code : {200}, retry_after : {None},
        is_json : {FALSE}, body : {NoBody}]
  \cup [kind : {"response"}, status_code : {200}, retry_after : {None},
        is_json : {TRUE}, body : Bodies]

QueryInit ==
  /\ env \in Envs /\ item_name \in ItemNames /\ upstream \in Upstreams
  /\ qpc = "start" /\ auth_used = "" /\ calls = 0 /\ qresp = NoResponse
  /\ payload = NoPayload /\ outcome = NoOutcome

-----------------------------------------------------------------------------
\* the stores are empty, no request is running, the users table has the unique
\* index the data model names, no upstream response has arrived and no stats URL
\* has been given
StoresInit == MarketInit /\ WatchInit /\ AuthInit
Init == StoresInit /\ steam_id_unique = TRUE /\ NormIdle /\ UrlIdle /\ QueryIdle

SpecWatch    == Init /\ [][WatchNext]_vars
SpecWatchSeq == Init /\ [][WatchNextSeq]_vars

\* login, against a users table with or without UNIQUE(steam_id)
InitAuth == StoresInit /\ steam_id_unique \in BOOLEAN /\ NormIdle /\ UrlIdle /\ QueryIdle
SpecAuth    == InitAuth /\ [][AuthNext]_vars
SpecAuthSeq == InitAuth /\ [][AuthNextSeq]_vars

InitNorm == StoresInit /\ steam_id_unique = TRUE /\ NormInit /\ UrlIdle /\ QueryIdle
SpecNorm == InitNorm /\ [][NormNext]_vars

InitUrl == StoresInit /\ steam_id_unique = TRUE /\ NormIdle /\ UrlInit /\ QueryIdle
SpecUrl == InitUrl /\ [][UrlNext]_vars

InitQuery == StoresInit /\ steam_id_unique = TRUE /\ UrlIdle /\ QueryInit
SpecQuery == InitQuery /\ [][QueryNext]_vars

-----------------------------------------------------------------------------
ItemIds  == 1..MaxItems
OrderIds == 1..MaxOrders
Opt(S)   == {None} \cup {Some(v) : v \in S}

\* ItemCreate bodies, at most one field invalid
ItemBodies ==
  {b \in [name : NameInputs, item_type : TypeInputs, price_usdt : ListPrices,
          quantity : ListQuantities, network : NetworkInputs] :
     Count(<<b.item_type \notin VALID_TYPES, b.network \notin VALID_NETWORKS>>) <= 1}

\* ItemUpdate bodies: the empty body and the bodies that set one field
UpdateBodies ==
  {b \in [name : Opt({<<"k">>}), price_usdt : Opt(NewPrices), quantity : Opt(NewQuantities),
          status : Opt(StatusInputs)] :
     Len(b.name) + Len(b.price_usdt) + Len(b.quantity) + Len(b.status) <= 1}

\* DepositConfirm bodies, at most one field invalid
DepositBodies ==
  {b \in [order_id : OrderIds, tx_hash : TxHashes, amount : DepositAmounts,
          token : TokenInputs, network : WalletNetworks] :
     Count(<<b.token \notin VALID_TOKENS, b.network \notin VALID_NETWORKS>>) <= 1}

\* WithdrawRequest bodies, at most one field invalid
WithdrawBodies ==
  {b \in [amount : WithdrawAmounts, token : TokenInputs, network : WalletNetworks,
          to_address : AddressInputs] :
     Count(<<b.token \notin VALID_TOKENS, b.network \notin VALID_NETWORKS,
             ~EVM_ADDRESS_RE_match(b.to_address)>>) <= 1}

Begin(p) ==
  \/ \E u \in Sellers, b \in ItemBodies :
        create_item_insert(p, u, b.name, b.item_type, b.price_usdt, b.quantity, b.network)
  \/ \E u \in Users, i \in ItemIds, b \in UpdateBodies :
        update_item_select(p, u, i, b.name, b.price_usdt, b.quantity, b.status)
  \/ \E u \in Users, i \in ItemIds : delete_item_select(p, u, i)
  \/ \E u \in Buyers, i \in ItemIds, q \in OrderQuantities : create_order_select(p, u, i, q)
  \/ \E u \in Users, o \in OrderIds : cancel_order_select(p, u, o)
  \/ \E u \in Users, b \in DepositBodies :
        confirm_deposit_select(p, u, b.order_id, b.tx_hash, b.amount, b.token, b.network)
  \/ \E u \in Users, b \in WithdrawBodies :
        withdraw_select(p, u, b.amount, b.token, b.network, b.to_address)

Step(p) ==
  \/ create_item_event(p)
  \/ update_item_update(p)
  \/ delete_item_update(p)
  \/ delete_item_event(p)
  \/ create_order_insert(p)
  \/ cancel_order_update(p)
  \/ confirm_deposit_order(p)
  \/ confirm_deposit_item(p)
  \/ confirm_deposit_balance(p)
  \/ confirm_deposit_tx(p)
  \/ confirm_deposit_event(p)
  \/ withdraw_balance(p)
  \/ withdraw_tx(p)
  \/ StatementError(p)

Next == \E p \in Procs : Begin(p) \/ Step(p)

Spec == Init /\ [][Next]_vars

\* requests served one after another: a request starts only when none is in flight
Quiescent == \A p \in Procs : ~InFlight(p)

NextSeq == \E p \in Procs : (Quiescent /\ Begin(p)) \/ Step(p)

SpecSeq == Init /\ [][NextSeq]_vars

-----------------------------------------------------------------------------
(* Properties *)

\* rows of the ledger recording a deposit for order o
DepositTxs(o) ==
  {i \in DOMAIN transactions :
     transactions[i].type = "deposit" /\ transactions[i].order_id = Some(o)}

\* 'received' events for the buyer and item of order o
ReceivedEvents(o) ==
  {i \in DOMAIN inventory_events :
     /\ inventory_events[i].event_type = "received"
     /\ inventory_events[i].user_id = orders[o].buyer_id
     /\ inventory_events[i].item_id = orders[o].item_id}

\* the buyer of order o holds a balance row (rows are never deleted, so a buyer
\* without one has never been credited)
Credited(o) == \E k \in DOMAIN balances : k[1] = orders[o].buyer_id

\* a confirm_deposit request for order o is past its check and not yet answered
Confirming(o) == \E p \in Procs : req[p].op = "confirm_deposit" /\ req[p].id = o

DepositApplied(o) ==
  /\ orders[o].status = "paid" /\ ~IsNone(orders[o].tx_hash)
  /\ items[orders[o].item_id].status = "sold"
  /\ Credited(o)
  /\ DepositTxs(o) # {}
  /\ ReceivedEvents(o) # {}

DepositAbsent(o) ==
  /\ orders[o].status # "paid" /\ IsNone(orders[o].tx_hash)
  /\ DepositTxs(o) = {}
  /\ ReceivedEvents(o) = {}

\* C1: deposit confirmation is atomic: once no confirmation of an order is running
\* (it returned or failed), the store shows all of its writes or none of them, and
\* in no state is an order paid while its buyer has not been credited.
C1_DepositAtomic ==
  \A o \in DOMAIN orders :
    /\ orders[o].status = "paid" => Credited(o)
    /\ ~Confirming(o) => DepositApplied(o) \/ DepositAbsent(o)

NonNegativeBalances == \A k \in DOMAIN balances : balances[k] >= 0

\* C3: under every interleaving of concurrent withdraw requests the balance
\* amount is non-negative in every reachable state.
C3_NoOverdraft == \A k \in DOMAIN balances : ~(balances[k] < 0)

\* C4: for every order, across any sequence or interleaving of confirm_deposit
\* requests naming it, the buyer is credited at most once for it: at most one deposit
\* Transaction with that order_id exists.
C4_ConfirmedOnce == \A o \in DOMAIN orders : Cardinality(DepositTxs(o)) <= 1

\* C5: an order's status changes only from pending, to paid or to cancelled; a
\* paid or cancelled order never changes status again.
C5_OrderStatusFinal ==
  [][\A o \in DOMAIN orders :
       orders'[o].status # orders[o].status =>
         orders[o].status = "pending" /\ orders'[o].status \in {"paid", "cancelled"}]_vars

\* C6: once an item is sold or cancelled, no operation changes its status again.
C6_ItemStatusFinal ==
  [][\A i \in DOMAIN items :
       items[i].status \in {"sold", "cancelled"} => items'[i].status = items[i].status]_vars

\* worker p takes up a request of kind op in this step: it passed the checks
Accepts(p, op) == req[p].pc = "idle" /\ req'[p].op = op

\* a step that refuses a request (raises before any write) writes nothing and
\* engages no worker
RefusalWritesNothing == refused' # refused => UNCHANGED <<db, req, nreq>>

\* the balance key of the withdraw request worker p serves
WithdrawKey(p) == <<req[p].user, req[p].token, req[p].network>>

\* a withdraw request for more than the balance (or with no balance row) is
\* answered 400
OverdrawIsRefused ==
  \A u \in Users, b \in WithdrawBodies :
    (\/ <<u, b.token, b.network>> \notin DOMAIN balances
     \/ balances[<<u, b.token, b.network>>] < b.amount)
    => withdraw_check(u, b.amount, b.token, b.network, b.to_address) = 400

\* a withdraw request is taken up only with a balance row holding at least the amount
WithdrawAcceptedIfCovered ==
  \A p \in Procs :
    Accepts(p, "withdraw") =>
      /\ WithdrawKey(p)' \in DOMAIN balances
      /\ req'[p].bal = balances[WithdrawKey(p)']
      /\ req'[p].amount <= req'[p].bal
      /\ UNCHANGED db

\* a step that lowers a balance is the debit of a withdraw request past its check,
\* lowers the balance it read by exactly the requested amount, and logs nothing yet
DebitIsExact ==
  \A k \in DOMAIN balances :
    balances'[k] < balances[k] =>
      \E p \in Procs :
        /\ req[p].op = "withdraw" /\ req[p].pc = "balance" /\ WithdrawKey(p) = k
        /\ balances[k] = req[p].bal
        /\ balances' = [balances EXCEPT ![k] = req[p].bal - req[p].amount]
        /\ transactions' = transactions

\* a step that logs a withdrawal appends exactly one row, for a request whose debit
\* has been made, and ends the request
WithdrawalIsLoggedOnce ==
  (Len(transactions') > Len(transactions) /\ transactions'[Len(transactions')].type = "withdrawal") =>
    \E p \in Procs :
      /\ req[p].op = "withdraw" /\ req[p].pc = "tx" /\ req'[p].pc = "idle"
      /\ transactions' = Append(transactions,
            [user_id |-> req[p].user, order_id |-> None, type |-> "withdrawal",
             amount |-> req[p].amount, token |-> req[p].token,
             network |-> req[p].network, tx_hash |-> None])
      /\ balances' = balances
      /\ balances[WithdrawKey(p)] = req[p].bal - req[p].amount

\* C2: with withdraw requests served one after another, no balance is ever negative;
\* a request for more than the balance at call time (or without a balance row) is
\* refused with 400 and leaves balance and ledger unchanged; an accepted request
\* lowers the balance by exactly its amount and appends exactly one withdrawal row.
C2_WithdrawSequential ==
  /\ [](NonNegativeBalances /\ OverdrawIsRefused)
  /\ [][/\ RefusalWritesNothing
        /\ WithdrawAcceptedIfCovered
        /\ DebitIsExact
        /\ WithdrawalIsLoggedOnce]_vars

\* C2 witness: a withdrawal has been accepted and logged, it emptied the balance,
\* a further withdraw request on that balance is the 400 case, and a request has
\* been refused with 400
C2_Witness ==
  /\ \E i \in DOMAIN transactions : transactions[i].type = "withdrawal"
  /\ \E k \in DOMAIN balances :
       balances[k] = 0 /\ withdraw_check(k[1], 1000, k[2], k[3], "0xgood") = 400
  /\ refused = 400
  /\ Quiescent

\* the code create_order answers to user u asking for q of item i, as claimed
OrderRefusalsAsClaimed(u, i, q) ==
  /\ q > items[i].quantity => create_order_check(u, i, q) = 400
  /\ items[i].seller_id = u => create_order_check(u, i, q) = 409
  /\ items[i].status # "active" => create_order_check(u, i, q) = 409

\* the code create_order answers to user u asking for q of item i
OrderRefusals(u, i, q) ==
  /\ q > items[i].quantity =>
       create_order_check(u, i, q) =
         IF items[i].status = "active" /\ items[i].seller_id # u THEN 400 ELSE 409
  /\ items[i].seller_id = u => create_order_check(u, i, q) = 409
  /\ items[i].status # "active" => create_order_check(u, i, q) = 409

\* an order request is taken up only if none of the three cases holds, and order
\* rows are inserted only by requests taken up
OrderRowsOnlyIfAccepted ==
  /\ \A p \in Procs :
       Accepts(p, "create_order") =>
         LET i == req'[p].item_id IN
           /\ i \in DOMAIN items
           /\ items[i].status = "active"
           /\ items[i].seller_id # req'[p].user
           /\ req'[p].quantity <= items[i].quantity
           /\ UNCHANGED db
  /\ Len(orders') > Len(orders) =>
       \E p \in Procs : req[p].op = "create_order" /\ req'[p].pc = "idle"

\* C7 (as claimed): an order request for more than the item's quantity always fails
\* with 400 and creates no order row; a request by the item's seller always fails
\* with 409; a request against an item that is not active fails with 409.
C7_CreateOrderRefusalsAsClaimed ==
  \A u \in Buyers, i \in DOMAIN items, q \in OrderQuantities : OrderRefusalsAsClaimed(u, i, q)

\* C7 (amended): an order request for more than the item's quantity always fails and
\* creates no order row, with 400 when the item is active and the requester is not
\* its seller and with 409 otherwise; a request by the item's seller always fails
\* with 409; a request against an item that is not active fails with 409; none of
\* them creates an order row.
C7_CreateOrderRefusals ==
  /\ [](\A u \in Buyers, i \in DOMAIN items, q \in OrderQuantities : OrderRefusals(u, i, q))
  /\ [][RefusalWritesNothing /\ OrderRowsOnlyIfAccepted]_vars

\* C7 witness: an order for 3 of an active item with quantity 2 is the 400 case for
\* user 2 and the 409 case for its seller, a request has been refused with 400, and
\* no order row exists
C7_Witness ==
  /\ 1 \in DOMAIN items /\ items[1].status = "active" /\ items[1].quantity = 2
  /\ create_order_check(2, 1, 3) = 400
  /\ create_order_check(1, 1, 3) = 409
  /\ refused = 400
  /\ orders = <<>> /\ Quiescent /\ nreq = 1

\* C8: a cancel by the buyer of an order that is already cancelled or paid fails with
\* 409 and leaves orders, balances, ledger, events and items unchanged; a cancel is
\* taken up only for a pending order and by its buyer, and the step that makes an
\* order cancelled changes only that order's status, for a cancel request taken up.
C8_CancelOrder ==
  /\ [](\A o \in DOMAIN orders :
          cancel_order_check(orders[o].buyer_id, o) =
            IF orders[o].status = "pending" THEN 0 ELSE 409)
  /\ [][/\ RefusalWritesNothing
        /\ \A p \in Procs :
             Accepts(p, "cancel_order") =>
               /\ req'[p].id \in DOMAIN orders
               /\ orders[req'[p].id].status = "pending"
               /\ UNCHANGED db
        /\ \A o \in DOMAIN orders :
             (orders'[o].status = "cancelled" /\ orders[o].status # "cancelled") =>
               /\ orders' = [orders EXCEPT ![o].status = "cancelled"]
               /\ UNCHANGED <<items, balances, transactions, inventory_events>>
               /\ \E p \in Procs : req[p].op = "cancel_order" /\ req[p].id = o]_vars

\* C8 witness: order 1 has been cancelled, order 2 has been paid, a cancel of either
\* by the buyer is the 409 case, and a request has been refused with 409
C8_Witness ==
  /\ Len(orders) = 2
  /\ orders[1].status = "cancelled" /\ orders[2].status = "paid"
  /\ cancel_order_check(orders[1].buyer_id, 1) = 409
  /\ cancel_order_check(orders[2].buyer_id, 2) = 409
  /\ refused = 409

\* the user may act on the item / on the order
OwnsItem(u, i)  == items[i].seller_id = u \/ is_admin(u)
OwnsOrder(u, o) == orders[o].buyer_id = u \/ is_admin(u)

\* C9: update_item, delete_item, cancel_order and confirm_deposit by a user who is
\* neither the owner (seller of the item, buyer of the order) nor an admin fail with
\* 403.
C9_OwnerOrAdminOnly ==
  \A u \in Users :
    /\ \A i \in DOMAIN items :
         ~OwnsItem(u, i) =>
           /\ \A b \in UpdateBodies :
                update_item_check(u, i, b.name, b.price_usdt, b.quantity, b.status) = 403
           /\ delete_item_check(u, i) = 403
    /\ \A o \in DOMAIN orders :
         ~OwnsOrder(u, o) =>
           /\ cancel_order_check(u, o) = 403
           /\ \A b \in DepositBodies :
                (b.order_id = o /\ b.token \in VALID_TOKENS /\ b.network \in VALID_NETWORKS)
                  => confirm_deposit_check(u, o, b.token, b.network) = 403

\* a is x rounded to 2 decimals (amounts in thousandths)
IsRounded2(a, x) == a % 10 = 0 /\ a - x <= 5 /\ x - a <= 5

\* C10: an order's amount is item.price x quantity rounded to 2 decimals and its
\* network the item's network, as create_order read the item; the row is inserted
\* with these values, and no later step changes the amount or network of an order.
C10_OrderAmountFixed ==
  [][/\ \A p \in Procs :
          Accepts(p, "create_order") =>
             LET i == req'[p].item_id IN
               /\ IsRounded2(req'[p].total, items[i].price_usdt * req'[p].quantity)
               /\ req'[p].network = items[i].network
     /\ Len(orders') > Len(orders) =>
          \E p \in Procs :
            /\ req[p].op = "create_order"
            /\ Len(orders') = Len(orders) + 1
            /\ orders'[Len(orders')].amount_usdt = req[p].total
            /\ orders'[Len(orders')].network = req[p].network
            /\ orders'[Len(orders')].item_id = req[p].item_id
            /\ orders'[Len(orders')].quantity = req[p].quantity
     /\ \A o \in DOMAIN orders :
          /\ o \in DOMAIN orders'
          /\ orders'[o].amount_usdt = orders[o].amount_usdt
          /\ orders'[o].network = orders[o].network]_vars

\* C10 witness: order 1 was placed at price 0.500, the price was then updated to
\* 1.004, order 2 was placed (2 x 1.004 = 2.008, stored as 2.010) and order 1 was
\* paid: order 1 still has the amount of the old price
C10_Witness ==
  /\ Len(orders) = 2
  /\ items[1].price_usdt = 1004
  /\ orders[1].amount_usdt = 1000 /\ orders[1].quantity = 2 /\ orders[1].status = "paid"
  /\ orders[1].amount_usdt # OrderTotal(items[1].price_usdt, orders[1].quantity)
  /\ orders[2].amount_usdt = 2010
  /\ \A o \in DOMAIN orders : orders[o].network = items[1].network

\* C11: an update_item request on an item whose status is sold or cancelled changes
\* neither its price nor its quantity.
C11_EditOnlyWhileActive ==
  [][\A i \in DOMAIN items :
       items[i].status \in {"sold", "cancelled"} =>
         /\ items'[i].price_usdt = items[i].price_usdt
         /\ items'[i].quantity = items[i].quantity]_vars

\* the balance key a confirm_deposit request of worker p credits
DepositKey(p) == <<req[p].buyer_id, req[p].token, req[p].network>>

\* the statement that worker p, serving a confirm_deposit request, executes in this
\* step (the step is not a failure of the request) has the effect claimed
ConfirmStatementAsClaimed(p) ==
  LET r == req[p] IN
  /\ (r.pc = "order" /\ req'[p].pc = "item") =>
        /\ orders[r.id].status = "pending"
        /\ r.buyer_id = orders[r.id].buyer_id /\ r.item_id = orders[r.id].item_id
        /\ orders'[r.id] = [orders[r.id] EXCEPT !.status = "paid", !.tx_hash = Some(r.tx_hash)]
        /\ \A o \in DOMAIN orders \ {r.id} : orders'[o] = orders[o]
        /\ DOMAIN orders' = DOMAIN orders
        /\ UNCHANGED <<items, balances, transactions, inventory_events>>
  /\ (r.pc = "item" /\ req'[p].pc = "balance") =>
        /\ items'[r.item_id].status = "sold"
        /\ items' = [items EXCEPT ![r.item_id].status = "sold"]
        /\ UNCHANGED <<orders, balances, transactions, inventory_events>>
  /\ (r.pc = "balance" /\ req'[p].pc = "tx") =>
        LET k    == DepositKey(p)
            prev == IF k \in DOMAIN balances THEN balances[k] ELSE 0
        IN  /\ DOMAIN balances' = DOMAIN balances \cup {k}
            /\ balances'[k] = prev + r.amount
            /\ \A j \in DOMAIN balances \ {k} : balances'[j] = balances[j]
            /\ UNCHANGED <<items, orders, transactions, inventory_events>>
  /\ (r.pc = "tx" /\ req'[p].pc = "event") =>
        /\ transactions' = Append(transactions,
              [user_id |-> r.buyer_id, order_id |-> Some(r.id), type |-> "deposit",
               amount |-> r.amount, token |-> r.token, network |-> r.network,
               tx_hash |-> Some(r.tx_hash)])
        /\ UNCHANGED <<items, orders, balances, inventory_events>>
  /\ (r.pc = "event" /\ inventory_events' # inventory_events) =>
        /\ req'[p].pc = "idle"
        /\ inventory_events' = Append(inventory_events,
              [user_id |-> r.buyer_id, item_id |-> r.item_id, event_type |-> "received"])
        /\ UNCHANGED <<items, orders, balances, transactions>>
        \* the request has succeeded: the store shows all of its writes, once
        /\ orders[r.id].status = "paid" /\ orders[r.id].tx_hash = Some(r.tx_hash)
        /\ items[r.item_id].status = "sold"
        /\ DepositKey(p) \in DOMAIN balances
        /\ Cardinality(DepositTxs(r.id)) = 1
        /\ transactions[Len(transactions)].order_id = Some(r.id)

\* C12: a successful deposit confirmation of a pending order, served on its own, sets
\* the order paid with the given tx_hash, sets the order's item sold, makes the buyer's
\* balance for (token, network) its previous value (0 if there was no row) plus the
\* amount, appends exactly one deposit Transaction and exactly one 'received' event for
\* (buyer, item), and changes no other order, item or balance.
C12_DepositEffect ==
  [][\A p \in Procs : req[p].op = "confirm_deposit" => ConfirmStatementAsClaimed(p)]_vars

\* C12 witness: two orders of user 2 have been confirmed one after the other, the
\* first credit created the balance row and the second added to it
C12_Witness ==
  /\ Quiescent
  /\ Len(orders) = 2 /\ orders[1].status = "paid" /\ orders[2].status = "paid"
  /\ <<2, "USDT", "polygon">> \in DOMAIN balances
  /\ balances[<<2, "USDT", "polygon">>] = 2000
  /\ Len(transactions) = 2
  /\ Cardinality({i \in DOMAIN inventory_events : inventory_events[i].event_type = "received"}) = 2

-----------------------------------------------------------------------------
(* Properties of the watchlist service *)

NoDuplicateSku ==
  \A i, j \in DOMAIN watchlist : i # j => watchlist[i].sku # watchlist[j].sku

\* C13: a Create of a payload that validates and whose sku is free returns 201 with
\* an entry, and a Read of the assigned id right after returns that same entry; a
\* Create with a sku already present answers 409; no two entries share a sku.
C13_CreateReadRoundTrip ==
  /\ NoDuplicateSku
  /\ (wresp.op = "create" /\ WQuiescent) =>
       /\ wresp.code \in {201, 409, 422}
       /\ wresp.code = 201 =>
            /\ get_item_result(wresp.body.id).code = 200
            /\ get_item_result(wresp.body.id).body = wresp.body

\* the step is a Delete(id) request
IsDelete(id) == wresp' # wresp /\ wresp'.op = "delete" /\ wresp'.id = id

\* C14: a Delete of an existing id answers 204, removes that entry and leaves every
\* other entry unchanged, and a Read of the id afterwards answers 404; a Delete of an
\* id that is not present answers 404 and leaves the store unchanged.
C14_DeleteThenRead ==
  /\ []((wresp.op = "delete" /\ wresp.code = 204) => get_item_result(wresp.id).code = 404)
  /\ [][\A id \in WatchIds :
          IsDelete(id) =>
            IF id \in DOMAIN watchlist
            THEN /\ wresp'.code = 204
                 /\ DOMAIN watchlist' = DOMAIN watchlist \ {id}
                 /\ \A j \in DOMAIN watchlist' : watchlist'[j] = watchlist[j]
                 /\ UNCHANGED <<seq, wreq>>
            ELSE /\ wresp'.code = 404
                 /\ UNCHANGED <<watchlist, seq, wreq>>]_vars

\* C14 witness: entry 1 has been deleted with 204 while entry 2 is still held, and a
\* Read of id 1 is the 404 case
C14_Witness ==
  /\ wresp.op = "delete" /\ wresp.code = 204 /\ wresp.id = 1
  /\ DOMAIN watchlist = {2}
  /\ get_item_result(1).code = 404

\* C15: an Update whose id is absent when it writes (a Delete of the id ran after the
\* existence check) ends with 404.
C15_UpdateNotFound ==
  [][\A p \in WProcs :
       (wreq[p].op = "update" /\ wreq[p].pc = "write" /\ wreq[p].id \notin DOMAIN watchlist) =>
          (wreq'[p].pc = "idle" /\ wresp'.op = "update" /\ wresp'.code = 404)]_vars

\* C16: every entry held in the store has a sku of the form digits;digits(;part)*,
\* a non-empty name without a double space, a target price in (0, 100000] and a note
\* that is absent or of at most 300 characters.
C16_EntriesValid ==
  \A i \in DOMAIN watchlist :
    /\ SKU_PATTERN_match(watchlist[i].sku)
    /\ watchlist[i].name # <<>> /\ ~HasDoubleSpace(watchlist[i].name)
    /\ watchlist[i].target_price_ref > 0 /\ watchlist[i].target_price_ref <= 100000
    /\ (IsNone(watchlist[i].note) \/ Len(watchlist[i].note[1]) <= 300)

-----------------------------------------------------------------------------
(* Properties of the login *)

\* C17: a login that runs into the uniqueness of steam_id (two concurrent first-time
\* logins with the same steam_id) never ends with the raw store error, which the
\* client sees as 500.
C17_UniquenessIsConflict == lresp.code # 500

\* C18: at every moment there is at most one user per steam_id, and every login that
\* has ended answered 200 with the id of the one user that has its steam_id.
C18_OneUserPerSteamId ==
  /\ \A s \in SteamIds : Cardinality(UsersOf(s)) <= 1
  /\ lresp.code \in {0, 200}
  /\ lresp.code = 200 => UsersOf(lresp.steam_id) = {lresp.user_id}

-----------------------------------------------------------------------------
(* Properties of the listing normalizer *)

\* C19: extraction and the buy/sell partition never raise, whatever the decoded
\* payload is.
C19_NormalizationNeverRaises == ~(outcome.state = "raised" /\ outcome.at = "partition")

\* the two checks on a mapping: its 'listings' key; its 'results' key, a list used
\* directly, a mapping giving its nested 'listings' or else its values.  None when
\* neither matches.
TwoChecks(c) ==
  IF has(c, "listings") THEN Some(as_list(get(c, "listings")))
  ELSE IF get(c, "results").t = "list" THEN Some(get(c, "results").l)
  ELSE IF get(c, "results").t = "dict"
       THEN IF has(get(c, "results"), "listings")
            THEN Some(as_list(get(get(c, "results"), "listings")))
            ELSE Some(values(get(c, "results")))
  ELSE None

\* the ordered rule: the two checks on the payload, then on its 'data' wrapper, else
\* the empty collection
OrderedRule(data) ==
  IF data.t # "dict" THEN <<>>
  ELSE IF TwoChecks(data) # None THEN TwoChecks(data)[1]
  ELSE IF get(data, "data").t = "dict" /\ TwoChecks(get(data, "data")) # None
       THEN TwoChecks(get(data, "data"))[1]
  ELSE <<>>

\* the ordered rule, with a 'data' wrapper that is itself a list used directly when
\* nothing before it matched
OrderedRuleListWrapper(data) ==
  IF data.t = "dict" /\ TwoChecks(data) = None /\ get(data, "data").t = "list"
  THEN get(data, "data").l
  ELSE OrderedRule(data)

\* C20 as stated: the extracted collection is the one the ordered rule selects
\* (top-level 'listings'; top-level 'results'; the same two checks on a 'data'
\* wrapper; else empty).
C20_ExtractionAsStated ==
  outcome.state # "none" => outcome.extracted = OrderedRule(payload)

\* C20: the extracted collection is the one the ordered rule selects, where a 'data'
\* wrapper that is a list is itself the collection when no top-level key matched.
C20_ExtractionOrder ==
  outcome.state # "none" => outcome.extracted = OrderedRuleListWrapper(payload)

\* C20 witness: a payload whose top-level 'results' is a scalar and whose 'data'
\* wrapper holds 'results' with two listings has been normalized to these two
C20_Witness ==
  /\ outcome.state = "ok" /\ Len(outcome.extracted) = 2
  /\ payload.t = "dict" /\ ~has(payload, "listings") /\ ~has(payload, "results")
  /\ get(payload, "data").t = "dict" /\ get(get(payload, "data"), "results").t = "dict"
  /\ outcome.extracted = values(get(get(payload, "data"), "results"))

\* the side the stated intent rule gives a listing: integer 0 buy, another integer
\* sell, the strings 'buy' and 'sell' themselves, anything else neither
StatedSide(lst) ==
  LET intent == get(lst, "intent") IN
    IF intent.t = "int" THEN (IF intent.i = 0 THEN "buy" ELSE "sell")
    ELSE IF intent = JStr("buy") THEN "buy"
    ELSE IF intent = JStr("sell") THEN "sell"
    ELSE "neither"

\* the prices of the listings the stated rule puts on a side, in their order
StatedPrices(listings, side) ==
  LET OnSide(lst) == StatedSide(lst) = side
      chosen == SelectSeq(listings, OnSide)
  IN  [i \in DOMAIN chosen |-> price_of(chosen[i])]

\* C21: the sells are the prices of exactly the extracted listings whose intent is a
\* non-zero integer or 'sell', the buys those whose intent is the integer 0 or 'buy';
\* every other intent value is on neither side, so the two counts sum to at most the
\* number of extracted listings.
C21_IntentNormalization ==
  outcome.state = "ok" =>
    /\ outcome.sells = StatedPrices(outcome.extracted, "sell")
    /\ outcome.buys = StatedPrices(outcome.extracted, "buy")
    /\ Len(outcome.sells) + Len(outcome.buys) <= Len(outcome.extracted)

\* x < y of two price components where a missing one (None) is +infinity
InfLess(x, y) ==
  /\ is_int(x)
  /\ y.t = "null" \/ (is_int(y) /\ int_of(x) < int_of(y))
InfEq(x, y) == (x.t = "null" /\ y.t = "null") \/ (is_int(x) /\ is_int(y) /\ int_of(x) = int_of(y))

\* p before q in the lexicographic order of (keys, metal), a missing value +infinity
PriceLess(p, q) ==
  InfLess(p.keys, q.keys) \/ (InfEq(p.keys, q.keys) /\ InfLess(p.metal, q.metal))

Prices(side) == {side[i] : i \in DOMAIN side}

\* C22: once the listings are partitioned the extremes are computed without error;
\* lowest_sell is None exactly when there is no sell and else a sell that no sell is
\* below, highest_buy is None exactly when there is no buy and else a buy that no buy
\* is above, in the lexicographic order of (keys, metal) with a missing value as
\* +infinity.
C22_Extremes ==
  (outcome.state # "none" /\ outcome.at # "partition") =>
    /\ outcome.state = "ok"
    /\ IsNone(outcome.lowest_sell) <=> outcome.sells = <<>>
    /\ IsNone(outcome.highest_buy) <=> outcome.buys = <<>>
    /\ ~IsNone(outcome.lowest_sell) =>
         /\ outcome.lowest_sell[1] \in Prices(outcome.sells)
         /\ \A q \in Prices(outcome.sells) : ~PriceLess(q, outcome.lowest_sell[1])
    /\ ~IsNone(outcome.highest_buy) =>
         /\ outcome.highest_buy[1] \in Prices(outcome.buys)
         /\ \A q \in Prices(outcome.buys) : ~PriceLess(outcome.highest_buy[1], q)

-----------------------------------------------------------------------------
(* Properties of the stats-URL parser *)

\* the host ends with the vendor domain
HostOk(u) == u.host # <<>> /\ u.host[Len(u.host)] = VENDOR

\* what the stated rule gives: InvalidInput for a host outside the vendor domain, for
\* fewer than 5 non-empty segments and for a first segment other than 'stats'; else
\* the fields read from the decoded segments 1 to 5
StatedParse(u) ==
  LET seg == [i \in DOMAIN parts_of(u) |-> unquote(parts_of(u)[i])] IN
    IF ~HostOk(u) \/ Len(seg) < 5 \/ seg[1] # STATS THEN [NoParse EXCEPT !.state = "invalid"]
    ELSE [state |-> "ok",
          item_name |-> seg[3],
          quality |-> QUALITY_NAME_TO_ID_get(seg[2]),
          tradable |-> IF lower(seg[4]) = TRADABLE THEN 1 ELSE 0,
          craftable |-> IF lower(seg[5]) = CRAFTABLE THEN 1 ELSE 0,
          particle |-> IF Len(seg) >= 6 /\ AllIn(seg[6], Digits) THEN Some(int(seg[6], 0)) ELSE None]

\* C23: the parser fails with InvalidInput exactly for a host outside the vendor
\* domain, fewer than 5 non-empty path segments or a first segment other than
\* 'stats', and for every other URL returns without error the quality id of segment
\* 1 (absent for an unknown name), segment 2 as item name, tradable and craftable 1
\* exactly for 'tradable' and 'craftable' in any case, and segment 5 as the effect id
\* exactly when it is present and all digits.
C23_StatsUrlParse == parsed.state # "none" => parsed = StatedParse(stats_url)

-----------------------------------------------------------------------------
(* Properties of the listings query *)

\* a credential is set: the variable is defined and holds more than blanks
IsSet(v) == ~IsNone(v) /\ strip(v[1]) # <<>>

\* the query passed the check of its item name and reached the upstream call
Passed == strip(item_name) # <<>>

\* C24: a query never calls the upstream more than once, and one that passed its
\* parameter check and has ended called it exactly once; a transport failure ends
\* with 502, an upstream 429 with 429 and the upstream's Retry-After value, another
\* upstream status than 200 with 502; a 200 result comes only from an upstream 200,
\* and reports the token if one is set, else the key if one is set, else none.
C24_SingleUpstreamCall ==
  /\ calls <= 1
  /\ qpc = "done" =>
       /\ Passed => calls = 1
       /\ (Passed /\ upstream.kind = "error") => qresp.code = 502
       /\ (Passed /\ upstream.kind = "response" /\ upstream.status_code = 429) =>
            (qresp.code = 429 /\ qresp.retry_after = upstream.retry_after)
       /\ (Passed /\ upstream.kind = "response" /\ upstream.status_code \notin {200, 429}) =>
            qresp.code = 502
       /\ qresp.code = 200 =>
            /\ upstream.kind = "response" /\ upstream.status_code = 200
            /\ qresp.auth_used = IF IsSet(env.token) THEN "token_query"
                                 ELSE IF IsSet(env.key) THEN "key_query"
                                 ELSE "none"

\* C24 witness: with a blank token and a key set, an upstream 200 was turned into a
\* result that reports the key, after one call
C24_Witness ==
  /\ qpc = "done" /\ qresp.code = 200 /\ calls = 1
  /\ env.token = Some(<<" ">>) /\ IsSet(env.key)
  /\ qresp.auth_used = "key_query"
  /\ qresp.sell = 1 /\ qresp.buy = 1

-----------------------------------------------------------------------------
(* Further properties of the marketplace *)

\* C25: every item's status is one of active, sold, cancelled and every order's
\* status is one of pending, paid, cancelled.
C25_StatusDomains ==
  /\ \A i \in DOMAIN items : items[i].status \in {"active", "sold", "cancelled"}
  /\ \A o \in DOMAIN orders : orders[o].status \in {"pending", "paid", "cancelled"}

\* log s is the beginning of log t
IsPrefix(s, t) == Len(s) <= Len(t) /\ SubSeq(t, 1, Len(s)) = s

\* this step appends to the event log exactly one event of the type, and nothing to
\* the ledger
AppendsEvent(event_type) ==
  /\ Len(inventory_events') = Len(inventory_events) + 1
  /\ inventory_events'[Len(inventory_events')].event_type = event_type
  /\ UNCHANGED transactions

\* this step appends to the ledger exactly one Transaction of the type, and nothing
\* to the event log
AppendsTransaction(type) ==
  /\ Len(transactions') = Len(transactions) + 1
  /\ transactions'[Len(transactions')].type = type
  /\ UNCHANGED inventory_events

\* worker p executes a statement in this step (it neither stands still nor fails)
Executes(p) == req'[p] # req[p] /\ ~(req'[p].pc = "idle" /\ UNCHANGED db)

\* what the statement worker p executes in this step does to the two logs: the
\* last statement of a listing, of a delete and of a confirmation appends the one
\* event, the statement before the last of a confirmation and the last of a
\* withdrawal the one Transaction, and no other statement appends anything
LogEffect(p) ==
  LET op == req[p].op
      pc == req[p].pc
  IN  CASE op = "create_item" /\ pc = "event" -> AppendsEvent("listed") /\ req'[p].pc = "idle"
        [] op = "delete_item" /\ pc = "event" -> AppendsEvent("cancelled") /\ req'[p].pc = "idle"
        [] op = "confirm_deposit" /\ pc = "tx" -> AppendsTransaction("deposit") /\ req'[p].pc = "event"
        [] op = "confirm_deposit" /\ pc = "event" -> AppendsEvent("received") /\ req'[p].pc = "idle"
        [] op = "withdraw" /\ pc = "tx" -> AppendsTransaction("withdrawal") /\ req'[p].pc = "idle"
        [] OTHER -> UNCHANGED <<transactions, inventory_events>>

\* C26: in every step each log keeps its entries and at most grows at its end; a
\* listing, a delete and a confirmation append their one event ('listed', 'cancelled',
\* 'received') with their last statement, a confirmation and a withdrawal their one
\* Transaction ('deposit', 'withdrawal'), no other statement appends, and a refused
\* or failing request appends nothing.
C26_AppendOnlyLogs ==
  [][/\ IsPrefix(transactions, transactions')
     /\ IsPrefix(inventory_events, inventory_events')
     /\ \A p \in Procs : Executes(p) => LogEffect(p)
     /\ (\A p \in Procs : ~Executes(p)) => UNCHANGED <<transactions, inventory_events>>]_vars

\* C26 witness: a listing, a confirmation and a withdrawal have returned; the event
\* log is 'listed', 'received' and the ledger 'deposit', 'withdrawal'
C26_Witness ==
  /\ Quiescent
  /\ Len(inventory_events) = 2
  /\ inventory_events[1].event_type = "listed" /\ inventory_events[2].event_type = "received"
  /\ Len(transactions) = 2
  /\ transactions[1].type = "deposit" /\ transactions[2].type = "withdrawal"

\* sum of the amounts of the ledger rows of one type recorded for a balance key
\* <<user, token, network>>
RECURSIVE LedgerSum(_, _, _)
LedgerSum(txs, key, type) ==
  IF txs = <<>> THEN 0
  ELSE (IF Head(txs).type = type /\ <<Head(txs).user_id, Head(txs).token, Head(txs).network>> = key
        THEN Head(txs).amount ELSE 0) + LedgerSum(Tail(txs), key, type)

\* the balance keys that have a row or a ledger entry
LedgerKeys ==
  DOMAIN balances \cup
  {<<transactions[k].user_id, transactions[k].token, transactions[k].network>> : k \in DOMAIN transactions}

\* C27: when no request is in flight, every balance row holds the sum of the deposits
\* of its (user, token, network) minus the sum of its withdrawals, and a key without
\* a balance row has no deposits.
C27_LedgerConsistency ==
  Quiescent =>
    \A key \in LedgerKeys :
      IF key \in DOMAIN balances
      THEN balances[key] = LedgerSum(transactions, key, "deposit")
                           - LedgerSum(transactions, key, "withdrawal")
      ELSE LedgerSum(transactions, key, "deposit") = 0

\* the paid orders against item i
PaidOrders(i) == {o \in DOMAIN orders : orders[o].item_id = i /\ orders[o].status = "paid"}

\* C28: at most one order against an item is paid, and a sold item has exactly one
\* paid order.
C28_SingleSale ==
  \A i \in DOMAIN items :
    /\ Cardinality(PaidOrders(i)) <= 1
    /\ items[i].status = "sold" => Cardinality(PaidOrders(i)) = 1

\* worker p executes the statement at pc of a deposit confirmation in this step
ConfirmExecutes(p, pc) ==
  req[p].op = "confirm_deposit" /\ req[p].pc = pc /\ Executes(p)

\* C29: the credit of a deposit confirmation adds the order's stored amount to the
\* buyer's balance on the order's stored network, and the deposit Transaction it
\* appends carries the amount and the network of the order it references.
C29_CreditMatchesOrder ==
  [][\A p \in Procs :
       LET order == orders[req[p].id]
       IN  /\ ConfirmExecutes(p, "balance") =>
                balances' = Credit(balances, <<order.buyer_id, req[p].token, order.network>>,
                                   order.amount_usdt)
           /\ ConfirmExecutes(p, "tx") =>
                /\ transactions'[Len(transactions')].order_id = Some(req[p].id)
                /\ transactions'[Len(transactions')].amount = order.amount_usdt
                /\ transactions'[Len(transactions')].network = order.network]_vars

====
